---- MODULE Spec2Model ----
(***************************************************************************)
(* Behavior Analyzer event processor (handler.py): the request pipeline    *)
(* lambda_handler -> update_player_states -> extract_features ->           *)
(* run_detection -> store_events / store_detections over the three         *)
(* DynamoDB tables, and the pure functions extract_features and            *)
(* run_detection on their own.                                             *)
(*                                                                         *)
(* Numbers.  Python ints are TLA+ integers.  Python floats are modelled    *)
(* as exact rationals <<n, d>> (d > 0, lowest terms); the one square root  *)
(* of the program (accuracyStdDev) and the z-score that divides by it are  *)
(* kept as signed surds <<s, n, d>> = s * sqrt(n/d), so that every         *)
(* comparison of the code is decided exactly.  Decimal(str(v)) at the      *)
(* store boundary keeps the value of v, so a stored number is the number.  *)
(*                                                                         *)
(* Dicts (events, metadata, table items, feature vectors) are functions    *)
(* on the set of keys that are present; d.get(k, default) is Get.          *)
(***************************************************************************)
EXTENDS Integers, Sequences, FiniteSets, TLC

VARIABLES
    players,      \* PLAYER_STATE_TABLE: <<pk, sk>> -> item, pk = owner#playerId
    prevPlayers,  \* PLAYER_STATE_TABLE as it was before the last request
    request,      \* the last request handled: its events and its clock reading
    run,          \* what the last request computed and put: player_updates,
                  \* interesting events, detections, the items put into
                  \* EVENTS_TABLE and DETECTIONS_TABLE (both tables are only
                  \* ever written, never read)
    response,     \* the response returned for the last request
    nreq,         \* number of requests handled so far
    det,          \* a run_detection call on its own: player_updates, result
    eventsTable,  \* EVENTS_TABLE: the items put, in order (every sort key
                  \* holds the event id, a fresh uuid4 when the event has none)
    detectionsTable, \* DETECTIONS_TABLE: the items put, in order (every sort
                  \* key holds a fresh uuid4)
    ext,          \* an extract_features call on its own: events,
                  \* existing_state, result
    inflight      \* concurrent invocations of lambda_handler for one
                  \* player: the events, clock reading, position in
                  \* update_player_states and item read of each, and the
                  \* order of their calls on PLAYER_STATE_TABLE

vars == <<players, prevPlayers, request, run, response, nreq, det,
          eventsTable, detectionsTable, ext, inflight>>

-----------------------------------------------------------------------------
(* Bounds of the model *)

MaxBatch == 2
MaxRequests == 2
MaxClock == 2
MaxChain == 3

-----------------------------------------------------------------------------
(* Exact arithmetic *)

Abs(x) == IF x < 0 THEN -x ELSE x

RECURSIVE GCD(_, _)
GCD(a, b) == IF b = 0 THEN a ELSE GCD(b, a % b)

\* the rational n/d in lowest terms with a positive denominator; a
\* denominator of 0 is kept: it marks the quotient of a division by zero
Frac(n, d) ==
    LET s == IF d < 0 THEN -1 ELSE 1
        g == GCD(Abs(n), Abs(d))
    IN  IF d = 0 THEN <<n, 0>> ELSE <<(s * n) \div g, (s * d) \div g>>

\* float(i) of an int
IntToFloat(i) == <<i, 1>>

\* the four operations; common factors are cancelled before multiplying,
\* which keeps the intermediate integers small
RAdd(a, b) ==
    LET g == GCD(a[2], b[2])
    IN  Frac(a[1] * (b[2] \div g) + b[1] * (a[2] \div g), (a[2] \div g) * b[2])
RSub(a, b) == RAdd(a, <<-b[1], b[2]>>)
RMul(a, b) ==
    LET g1 == GCD(Abs(a[1]), b[2])
        g2 == GCD(Abs(b[1]), a[2])
    IN  Frac((a[1] \div g1) * (b[1] \div g2), (a[2] \div g2) * (b[2] \div g1))
RDiv(a, b) ==
    IF b[1] = 0 THEN Frac(a[1] * b[2], 0) ELSE RMul(a, Frac(b[2], b[1]))
RLt(a, b) == a[1] * b[2] < b[1] * a[2]
RLe(a, b) == a[1] * b[2] <= b[1] * a[2]
RMin(a, b) == IF RLt(b, a) THEN b ELSE a
RMax(a, b) == IF RLt(a, b) THEN b ELSE a
RSign(a) == IF a[1] > 0 THEN 1 ELSE IF a[1] < 0 THEN -1 ELSE 0

\* int(x) of a float: truncation toward zero
ToInt(a) == IF a[1] >= 0 THEN a[1] \div a[2] ELSE -((-a[1]) \div a[2])

\* f"{x:.2f}" of a float x >= 0, as the number of hundredths printed
\* (round half to even)
Format2f(a) ==
    LET n == 100 * a[1]
        q == n \div a[2]
        r == n % a[2]
    IN  IF 2 * r > a[2] \/ (2 * r = a[2] /\ q % 2 = 1) THEN q + 1 ELSE q

\* x ** 0.5 of a float x >= 0, as the surd <<1, n, d>> (<<0, 0, 1>> for 0.0)
Sqrt(a) == IF a[1] = 0 THEN <<0, 0, 1>> ELSE <<1, a[1], a[2]>>

\* a float as a surd: sign(a) * sqrt(a^2)
SurdOf(a) == LET q == RMul(a, a) IN <<RSign(a), q[1], q[2]>>

\* x / s for a float x and a surd s > 0
SurdDiv(a, s) ==
    LET q == RDiv(RMul(a, a), <<s[2], s[3]>>)
    IN  IF a[1] = 0 THEN <<0, 0, 1>> ELSE <<RSign(a), q[1], q[2]>>

SurdAbs(s) == <<Abs(s[1]), s[2], s[3]>>

\* s > c for a surd s and a float c >= 0
SurdGt(s, c) == s[1] = 1 /\ RLt(RMul(c, c), <<s[2], s[3]>>)

-----------------------------------------------------------------------------
(* Configuration (handler.py module level) *)

ZSCORE_THRESHOLD == <<3, 1>>
MIN_SAMPLES_FOR_DETECTION == 100
ACCURACY_INTERESTING_THRESHOLD == <<7, 10>>
HEADSHOT_INTERESTING_THRESHOLD == <<1, 2>>
MIN_SHOTS_FOR_INTERESTING == 5
HIGH_DAMAGE_THRESHOLD == 100
ACCURACY_RISK_THRESHOLD == <<1, 2>>
HEADSHOT_RISK_THRESHOLD == <<3, 10>>
\* ALWAYS_STORE_EVENTS without SESSION_END
AlwaysStoreWithoutSessionEnd ==
    {"SESSION_START", "PLAYER_KILLED", "PLAYER_REPORTED", "PLAYER_VIOLATION"}

\* ALWAYS_STORE_EVENTS with the routine PLAYER_INPUT among them
AlwaysStoreWithInput ==
    {"SESSION_START", "SESSION_END", "PLAYER_KILLED", "PLAYER_REPORTED",
     "PLAYER_VIOLATION", "PLAYER_INPUT"}

ALWAYS_STORE_EVENTS ==
    {"SESSION_START", "SESSION_END", "PLAYER_KILLED", "PLAYER_REPORTED",
     "PLAYER_VIOLATION"}

-----------------------------------------------------------------------------
(* Dicts *)

EmptyDict == [k \in {} |-> 0]

Get(d, k, default) == IF k \in DOMAIN d THEN d[k] ELSE default

\* d[k] = v
SetKey(d, k, v) == [j \in DOMAIN d \cup {k} |-> IF j = k THEN v ELSE d[j]]

\* {**a, **b}: the keys of b override those of a
Merge(a, b) == [j \in DOMAIN a \cup DOMAIN b |-> IF j \in DOMAIN b THEN b[j] ELSE a[j]]

-----------------------------------------------------------------------------
(* Python values *)

\* evt.get('playerId') where the key may be missing
None == "<None>"

\* a Python value with its type: a dict, a list, or a str holding a text
DictValue(d) == [type |-> "dict", value |-> d]
ListValue(l) == [type |-> "list", value |-> l]
StrValue(text) == [type |-> "str", value |-> text]
NoneValue == [type |-> "NoneType", value |-> None]
IntValue(n) == [type |-> "int", value |-> n]
BoolValue(b) == [type |-> "bool", value |-> b]

\* json.loads(text): the value a text produced by json.dumps stands for;
\* any other text raises JSONDecodeError
JsonLoads(text) ==
    IF text[1] = "json" THEN [raised |-> FALSE, value |-> text[2]]
    ELSE [raised |-> TRUE, value |-> None]

\* json.dumps(x): the serialised form of x
JsonDumps(x) == <<"json", x>>

\* the metadata of an event is the dict itself when it is a dict, and a
\* value with its type otherwise
IsTyped(metadata) == DOMAIN metadata = {"type", "value"}

\* the metadata extract_features works on: a str is replaced by what
\* json.loads makes of it, by {} when it does not decode
ParseMetadata(metadata) ==
    IF IsTyped(metadata) /\ metadata.type = "str"
    THEN (IF JsonLoads(metadata.value).raised THEN EmptyDict
          ELSE IF JsonLoads(metadata.value).value.type = "dict"
          THEN JsonLoads(metadata.value).value.value
          ELSE JsonLoads(metadata.value).value)
    ELSE metadata

-----------------------------------------------------------------------------
(* extract_features *)

\* InterestingReason with the headshot branch tried before the accuracy
\* branch
InterestingReasonHeadshotFirst(evt_shots, evt_accuracy, evt_hs_ratio) ==
    IF evt_shots >= MIN_SHOTS_FOR_INTERESTING THEN
        IF RLe(HEADSHOT_INTERESTING_THRESHOLD, evt_hs_ratio)
        THEN <<"high_headshot", Format2f(evt_hs_ratio)>>
        ELSE IF RLe(ACCURACY_INTERESTING_THRESHOLD, evt_accuracy)
        THEN <<"high_accuracy", Format2f(evt_accuracy)>>
        ELSE <<>>
    ELSE <<>>

\* the _interesting_reason of one WEAPON_FIRED event, <<>> when the event is
\* not interesting: the accuracy branch first, then the headshot branch
InterestingReason(evt_shots, evt_accuracy, evt_hs_ratio) ==
    IF evt_shots >= MIN_SHOTS_FOR_INTERESTING THEN
        IF RLe(ACCURACY_INTERESTING_THRESHOLD, evt_accuracy)
        THEN <<"high_accuracy", Format2f(evt_accuracy)>>
        ELSE IF RLe(HEADSHOT_INTERESTING_THRESHOLD, evt_hs_ratio)
        THEN <<"high_headshot", Format2f(evt_hs_ratio)>>
        ELSE <<>>
    ELSE <<>>

\* HighDamage with the threshold itself counted as high
HighDamageInclusive(damage) == damage >= HIGH_DAMAGE_THRESHOLD

\* damage > HIGH_DAMAGE_THRESHOLD: the test of a PLAYER_ATTACK event
HighDamage(damage) == damage > HIGH_DAMAGE_THRESHOLD

\* EvtShots counting one shot for every event
EvtShotsPerEvent(metadata) == 1

\* metadata.get('shots', 1): the shots a WEAPON_FIRED event adds
EvtShots(metadata) == Get(metadata, "shots", 1)

\* the loop over the player's events: the batch counters, the interesting
\* list, and the events themselves (an interesting WEAPON_FIRED or
\* PLAYER_ATTACK event is tagged in place with _interesting_reason);
\* metadata.get raises AttributeError on a metadata that is not a dict,
\* which ends the loop
RECURSIVE ScanEvents(_, _, _)
ScanEvents(events, i, acc) ==
    IF i > Len(events) THEN acc
    ELSE
      LET evt == events[i]
          action_type == Get(evt, "actionType", "")
          metadata == ParseMetadata(Get(evt, "metadata", EmptyDict))
      IN
      IF action_type \in ALWAYS_STORE_EVENTS THEN
          ScanEvents(events, i + 1,
              [acc EXCEPT !.interesting = Append(@, evt),
                          !.kills = IF action_type = "PLAYER_KILLED" THEN @ + 1 ELSE @])
      ELSE IF action_type \in {"WEAPON_FIRED", "PLAYER_ATTACK"} /\ IsTyped(metadata) THEN
          [acc EXCEPT !.raised = TRUE]
      ELSE IF action_type = "WEAPON_FIRED" THEN
          LET evt_shots == EvtShots(metadata)
              evt_hits == Get(metadata, "hits", 0)
              evt_headshots == Get(metadata, "headshots", 0)
              evt_accuracy == IF evt_shots > 0 THEN Frac(evt_hits, evt_shots) ELSE <<0, 1>>
              evt_hs_ratio == Frac(evt_headshots, IF evt_hits > 1 THEN evt_hits ELSE 1)
              reason == InterestingReason(evt_shots, evt_accuracy, evt_hs_ratio)
              tagged == IF reason = <<>> THEN evt
                        ELSE SetKey(evt, "_interesting_reason", reason)
          IN  ScanEvents(events, i + 1,
                  [acc EXCEPT !.shots_fired = @ + evt_shots,
                              !.shots_hit = @ + evt_hits,
                              !.headshots = @ + evt_headshots,
                              !.interesting = IF reason = <<>> THEN @ ELSE Append(@, tagged),
                              !.events[i] = tagged])
      ELSE IF action_type = "PLAYER_ATTACK" THEN
          LET damage == Get(metadata, "damage", 0)
              tagged == SetKey(evt, "_interesting_reason", <<"high_damage", damage>>)
          IN  IF HighDamage(damage)
              THEN ScanEvents(events, i + 1,
                      [acc EXCEPT !.interesting = Append(@, tagged),
                                  !.events[i] = tagged])
              ELSE ScanEvents(events, i + 1, acc)
      ELSE ScanEvents(events, i + 1, acc)
\* MergeTotals dividing the total hits by the shots of the batch
MergeTotalsBatchShots(scan, existing_state) ==
    LET existing_shots == IntToFloat(Get(existing_state, "totalShots", 0))
        existing_hits == IntToFloat(Get(existing_state, "totalHits", 0))
        total_shots == RAdd(existing_shots, IntToFloat(scan.shots_fired))
        total_hits == RAdd(existing_hits, IntToFloat(scan.shots_hit))
        totalHeadshots == Get(existing_state, "totalHeadshots", 0) + scan.headshots
    IN  [totalShots |-> ToInt(total_shots),
         totalHits |-> ToInt(total_hits),
         totalHeadshots |-> totalHeadshots,
         totalKills |-> Get(existing_state, "totalKills", 0) + scan.kills,
         accuracy |-> IF scan.shots_fired > 0
                      THEN RDiv(total_hits, IntToFloat(scan.shots_fired)) ELSE <<0, 1>>,
         headshotRatio |-> IF RLt(<<0, 1>>, total_shots)
                           THEN RDiv(IntToFloat(totalHeadshots), RMax(total_hits, <<1, 1>>))
                           ELSE <<0, 1>>]

\* MergeTotals without the test total_shots > 0 before the division
MergeTotalsUnguarded(scan, existing_state) ==
    LET existing_shots == IntToFloat(Get(existing_state, "totalShots", 0))
        existing_hits == IntToFloat(Get(existing_state, "totalHits", 0))
        total_shots == RAdd(existing_shots, IntToFloat(scan.shots_fired))
        total_hits == RAdd(existing_hits, IntToFloat(scan.shots_hit))
        totalHeadshots == Get(existing_state, "totalHeadshots", 0) + scan.headshots
    IN  [totalShots |-> ToInt(total_shots),
         totalHits |-> ToInt(total_hits),
         totalHeadshots |-> totalHeadshots,
         totalKills |-> Get(existing_state, "totalKills", 0) + scan.kills,
         accuracy |-> RDiv(total_hits, total_shots),
         headshotRatio |-> RDiv(IntToFloat(totalHeadshots), RMax(total_hits, <<1, 1>>))]

\* the incremental totals and the derived accuracy and headshot ratio
MergeTotals(scan, existing_state) ==
    LET existing_shots == IntToFloat(Get(existing_state, "totalShots", 0))
        existing_hits == IntToFloat(Get(existing_state, "totalHits", 0))
        total_shots == RAdd(existing_shots, IntToFloat(scan.shots_fired))
        total_hits == RAdd(existing_hits, IntToFloat(scan.shots_hit))
        totalHeadshots == Get(existing_state, "totalHeadshots", 0) + scan.headshots
    IN  [totalShots |-> ToInt(total_shots),
         totalHits |-> ToInt(total_hits),
         totalHeadshots |-> totalHeadshots,
         totalKills |-> Get(existing_state, "totalKills", 0) + scan.kills,
         accuracy |-> IF RLt(<<0, 1>>, total_shots)
                      THEN RDiv(total_hits, total_shots) ELSE <<0, 1>>,
         headshotRatio |-> IF RLt(<<0, 1>>, total_shots)
                           THEN RDiv(IntToFloat(totalHeadshots), RMax(total_hits, <<1, 1>>))
                           ELSE <<0, 1>>]

\* Welford taking a sample from every batch, of accuracy 0 when the batch
\* fired no shot
WelfordEveryBatch(scan, existing_state) ==
    LET session_accuracy == IF scan.shots_fired > 0
                            THEN Frac(scan.shots_hit, scan.shots_fired) ELSE <<0, 1>>
        n0 == IntToFloat(Get(existing_state, "accuracySampleCount", 0))
        mean0 == Get(existing_state, "accuracyMean", <<0, 1>>)
        m20 == Get(existing_state, "accuracyM2", <<0, 1>>)
        n == RAdd(n0, <<1, 1>>)
        delta == RSub(session_accuracy, mean0)
        mean == RAdd(mean0, RDiv(delta, n))
        delta2 == RSub(session_accuracy, mean)
        m2 == RAdd(m20, RMul(delta, delta2))
    IN  [accuracySampleCount |-> ToInt(n),
         accuracyMean |-> mean,
         accuracyM2 |-> m2,
         accuracyStdDev |-> IF RLt(<<1, 1>>, n) THEN Sqrt(RDiv(m2, n)) ELSE <<0, 0, 1>>]

\* Welford with m2 grown by delta * delta, the difference to the old mean
\* taken twice
WelfordDeltaTwice(scan, existing_state) ==
    IF scan.shots_fired > 0 THEN
        LET session_accuracy == Frac(scan.shots_hit, scan.shots_fired)
            n0 == IntToFloat(Get(existing_state, "accuracySampleCount", 0))
            mean0 == Get(existing_state, "accuracyMean", <<0, 1>>)
            m20 == Get(existing_state, "accuracyM2", <<0, 1>>)
            n == RAdd(n0, <<1, 1>>)
            delta == RSub(session_accuracy, mean0)
            mean == RAdd(mean0, RDiv(delta, n))
            m2 == RAdd(m20, RMul(delta, delta))
        IN  [accuracySampleCount |-> ToInt(n),
             accuracyMean |-> mean,
             accuracyM2 |-> m2,
             accuracyStdDev |-> IF RLt(<<1, 1>>, n) THEN Sqrt(RDiv(m2, n)) ELSE <<0, 0, 1>>]
    ELSE
        [accuracySampleCount |-> Get(existing_state, "accuracySampleCount", 0),
         accuracyMean |-> Get(existing_state, "accuracyMean", <<0, 1>>),
         accuracyM2 |-> Get(existing_state, "accuracyM2", <<0, 1>>),
         accuracyStdDev |-> Get(existing_state, "accuracyStdDev", <<0, 0, 1>>)]

\* Welford with the second difference taken the other way round
\* (mean - session_accuracy)
WelfordDelta2Reversed(scan, existing_state) ==
    IF scan.shots_fired > 0 THEN
        LET session_accuracy == Frac(scan.shots_hit, scan.shots_fired)
            n0 == IntToFloat(Get(existing_state, "accuracySampleCount", 0))
            mean0 == Get(existing_state, "accuracyMean", <<0, 1>>)
            m20 == Get(existing_state, "accuracyM2", <<0, 1>>)
            n == RAdd(n0, <<1, 1>>)
            delta == RSub(session_accuracy, mean0)
            mean == RAdd(mean0, RDiv(delta, n))
            delta2 == RSub(mean, session_accuracy)
            m2 == RAdd(m20, RMul(delta, delta2))
        IN  [accuracySampleCount |-> ToInt(n),
             accuracyMean |-> mean,
             accuracyM2 |-> m2,
             accuracyStdDev |-> IF RLt(<<1, 1>>, n) THEN Sqrt(RDiv(m2, n)) ELSE <<0, 0, 1>>]
    ELSE
        [accuracySampleCount |-> Get(existing_state, "accuracySampleCount", 0),
         accuracyMean |-> Get(existing_state, "accuracyMean", <<0, 1>>),
         accuracyM2 |-> Get(existing_state, "accuracyM2", <<0, 1>>),
         accuracyStdDev |-> Get(existing_state, "accuracyStdDev", <<0, 0, 1>>)]

\* the running statistics of the accuracy (Welford), one sample per batch
Welford(scan, existing_state) ==
    IF scan.shots_fired > 0 THEN
        LET session_accuracy == Frac(scan.shots_hit, scan.shots_fired)
            n0 == IntToFloat(Get(existing_state, "accuracySampleCount", 0))
            mean0 == Get(existing_state, "accuracyMean", <<0, 1>>)
            m20 == Get(existing_state, "accuracyM2", <<0, 1>>)
            n == RAdd(n0, <<1, 1>>)
            delta == RSub(session_accuracy, mean0)
            mean == RAdd(mean0, RDiv(delta, n))
            delta2 == RSub(session_accuracy, mean)
            m2 == RAdd(m20, RMul(delta, delta2))
        IN  [accuracySampleCount |-> ToInt(n),
             accuracyMean |-> mean,
             accuracyM2 |-> m2,
             accuracyStdDev |-> IF RLt(<<1, 1>>, n) THEN Sqrt(RDiv(m2, n)) ELSE <<0, 0, 1>>]
    ELSE
        [accuracySampleCount |-> Get(existing_state, "accuracySampleCount", 0),
         accuracyMean |-> Get(existing_state, "accuracyMean", <<0, 1>>),
         accuracyM2 |-> Get(existing_state, "accuracyM2", <<0, 1>>),
         accuracyStdDev |-> Get(existing_state, "accuracyStdDev", <<0, 0, 1>>)]

\* RiskScore without the final min(risk_score, 100.0)
RiskScoreUnclamped(features) ==
    LET r0 == <<0, 1>>
        r1 == IF RLt(ACCURACY_RISK_THRESHOLD, features.accuracy)
              THEN RAdd(r0, RMul(RSub(features.accuracy, ACCURACY_RISK_THRESHOLD), <<100, 1>>))
              ELSE r0
    IN  IF RLt(HEADSHOT_RISK_THRESHOLD, features.headshotRatio)
        THEN RAdd(r1, RMul(RSub(features.headshotRatio, HEADSHOT_RISK_THRESHOLD), <<100, 1>>))
        ELSE r1

\* the simplified risk score of a feature vector
RiskScore(features) ==
    LET r0 == <<0, 1>>
        r1 == IF RLt(ACCURACY_RISK_THRESHOLD, features.accuracy)
              THEN RAdd(r0, RMul(RSub(features.accuracy, ACCURACY_RISK_THRESHOLD), <<100, 1>>))
              ELSE r0
        r2 == IF RLt(HEADSHOT_RISK_THRESHOLD, features.headshotRatio)
              THEN RAdd(r1, RMul(RSub(features.headshotRatio, HEADSHOT_RISK_THRESHOLD), <<100, 1>>))
              ELSE r1
    IN  RMin(r2, <<100, 1>>)

\* extract_features(events, existing_state): the feature vector, the
\* interesting events, and the events as the call leaves them
ExtractFeatures(events, existing_state) ==
    LET Result(scan, features) ==
            [raised |-> FALSE,
             features |-> SetKey(features, "risk_score", RiskScore(features)),
             interesting |-> scan.interesting,
             events |-> scan.events]
        AfterLoop(scan) ==
            IF scan.raised
            THEN [raised |-> TRUE, features |-> EmptyDict, interesting |-> <<>>,
                  events |-> scan.events]
            ELSE Result(scan, Merge(MergeTotals(scan, existing_state),
                                    Welford(scan, existing_state)))
    IN  AfterLoop(ScanEvents(events, 1,
                    [shots_fired |-> 0, shots_hit |-> 0, headshots |-> 0,
                     kills |-> 0, interesting |-> <<>>, events |-> events,
                     raised |-> FALSE]))

-----------------------------------------------------------------------------
(* run_detection *)

\* ZScoreRule comparing the signed z-score, not its absolute value
ZScoreRuleSigned(player_id, features) ==
    LET mean == Get(features, "accuracyMean", <<0, 1>>)
        std_dev == Get(features, "accuracyStdDev", <<0, 0, 1>>)
        current == Get(features, "accuracy", <<0, 1>>)
        z_score == SurdDiv(RSub(current, mean), std_dev)
    IN  IF SurdGt(std_dev, <<1, 100>>) /\ SurdGt(z_score, ZSCORE_THRESHOLD)
        THEN << [playerId |-> player_id,
                 detectorType |-> "ZSCORE_ACCURACY",
                 score |-> SurdAbs(z_score),
                 threshold |-> ZSCORE_THRESHOLD,
                 features |-> [accuracy |-> current, mean |-> mean,
                               stdDev |-> std_dev, zScore |-> z_score]] >>
        ELSE <<>>

\* the z-score rule on the accuracy of one player
ZScoreRule(player_id, features) ==
    LET mean == Get(features, "accuracyMean", <<0, 1>>)
        std_dev == Get(features, "accuracyStdDev", <<0, 0, 1>>)
        current == Get(features, "accuracy", <<0, 1>>)
        z_score == SurdDiv(RSub(current, mean), std_dev)
    IN  IF SurdGt(std_dev, <<1, 100>>) /\ SurdGt(SurdAbs(z_score), ZSCORE_THRESHOLD)
        THEN << [playerId |-> player_id,
                 detectorType |-> "ZSCORE_ACCURACY",
                 score |-> SurdAbs(z_score),
                 threshold |-> ZSCORE_THRESHOLD,
                 features |-> [accuracy |-> current, mean |-> mean,
                               stdDev |-> std_dev, zScore |-> z_score]] >>
        ELSE <<>>

\* HeadshotRule firing at the threshold too (>= for >)
HeadshotRuleInclusive(player_id, features) ==
    LET headshot_ratio == Get(features, "headshotRatio", <<0, 1>>)
    IN  IF RLe(<<1, 2>>, headshot_ratio)
        THEN << [playerId |-> player_id,
                 detectorType |-> "THRESHOLD_HEADSHOT",
                 score |-> RMul(headshot_ratio, <<100, 1>>),
                 threshold |-> <<50, 1>>,
                 features |-> [headshotRatio |-> headshot_ratio,
                               totalHeadshots |-> Get(features, "totalHeadshots", 0),
                               totalHits |-> Get(features, "totalHits", 0)]] >>
        ELSE <<>>

\* the threshold rule on the headshot ratio of one player
HeadshotRule(player_id, features) ==
    LET headshot_ratio == Get(features, "headshotRatio", <<0, 1>>)
    IN  IF RLt(<<1, 2>>, headshot_ratio)
        THEN << [playerId |-> player_id,
                 detectorType |-> "THRESHOLD_HEADSHOT",
                 score |-> RMul(headshot_ratio, <<100, 1>>),
                 threshold |-> <<50, 1>>,
                 features |-> [headshotRatio |-> headshot_ratio,
                               totalHeadshots |-> Get(features, "totalHeadshots", 0),
                               totalHits |-> Get(features, "totalHits", 0)]] >>
        ELSE <<>>
\* DetectPlayer with the headshot rule tried only when the z-score rule
\* did not fire (elif for the second if)
DetectPlayerFirstRuleOnly(player_id, features) ==
    IF Get(features, "accuracySampleCount", 0) < MIN_SAMPLES_FOR_DETECTION THEN <<>>
    ELSE IF ZScoreRule(player_id, features) # <<>> THEN ZScoreRule(player_id, features)
    ELSE HeadshotRule(player_id, features)

\* DetectPlayer with the sample floor guarding the z-score rule only
DetectPlayerHeadshotUngated(player_id, features) ==
    (IF Get(features, "accuracySampleCount", 0) < MIN_SAMPLES_FOR_DETECTION THEN <<>>
     ELSE ZScoreRule(player_id, features))
    \o HeadshotRule(player_id, features)

\* one iteration of the loop over player_updates: a player below the
\* sample floor is skipped, otherwise the z-score rule, then the headshot rule
DetectPlayer(player_id, features) ==
    IF Get(features, "accuracySampleCount", 0) < MIN_SAMPLES_FOR_DETECTION THEN <<>>
    ELSE ZScoreRule(player_id, features) \o HeadshotRule(player_id, features)

\* run_detection(player_updates, owner); player_updates is the dict in
\* insertion order, a sequence of [playerId, features]
RECURSIVE RunDetection(_)
RunDetection(player_updates) ==
    IF player_updates = <<>> THEN <<>>
    ELSE DetectPlayer(Head(player_updates).playerId, Head(player_updates).features)
         \o RunDetection(Tail(player_updates))

-----------------------------------------------------------------------------
(* The tables *)

\* f"{owner}#{player_id}": the partition key of a player, the two strings
\* joined by a '#'
Pk(owner, player_id) == owner \o "#" \o player_id

\* table.get_item(Key=key).get('Item', {})
GetItem(table, key) == IF key \in DOMAIN table THEN table[key] ELSE EmptyDict

\* table.put_item(Item=item)
PutItem(table, key, item) == SetKey(table, key, item)

-----------------------------------------------------------------------------
(* update_player_states *)

\* the keys of player_events in insertion order: the player ids of the
\* batch in order of first occurrence
RECURSIVE PlayerOrder(_, _, _)
PlayerOrder(events, i, order) ==
    IF i > Len(events) THEN order
    ELSE LET player_id == Get(events[i], "playerId", "unknown")
         IN  PlayerOrder(events, i + 1,
                 IF \E k \in 1..Len(order) : order[k] = player_id
                 THEN order ELSE Append(order, player_id))

\* the positions of a player's events in the batch, ascending
RECURSIVE PositionsOf(_, _, _)
PositionsOf(events, player_id, i) ==
    IF i > Len(events) THEN <<>>
    ELSE (IF Get(events[i], "playerId", "unknown") = player_id THEN <<i>> ELSE <<>>)
         \o PositionsOf(events, player_id, i + 1)

\* ProfileItem counting the request, not its events
ProfileItemCountsRequests(pk, owner, player_id, now, existing, n_events, features) ==
    [pk |-> pk, sk |-> "PROFILE", owner |-> owner, playerId |-> player_id,
     lastSeen |-> now,
     firstSeen |-> Get(existing, "firstSeen", now),
     eventCount |-> Get(existing, "eventCount", 0) + 1,
     riskScore |-> Get(features, "risk_score", <<0, 1>>),
     status |-> Get(existing, "status", "MONITOR")]

\* ProfileItem overwriting firstSeen with the clock reading
ProfileItemFirstSeenNow(pk, owner, player_id, now, existing, n_events, features) ==
    [pk |-> pk, sk |-> "PROFILE", owner |-> owner, playerId |-> player_id,
     lastSeen |-> now,
     firstSeen |-> now,
     eventCount |-> Get(existing, "eventCount", 0) + n_events,
     riskScore |-> Get(features, "risk_score", <<0, 1>>),
     status |-> Get(existing, "status", "MONITOR")]

\* the PROFILE item written for a player with n_events events in the batch
ProfileItem(pk, owner, player_id, now, existing, n_events, features) ==
    [pk |-> pk, sk |-> "PROFILE", owner |-> owner, playerId |-> player_id,
     lastSeen |-> now,
     firstSeen |-> Get(existing, "firstSeen", now),
     eventCount |-> Get(existing, "eventCount", 0) + n_events,
     riskScore |-> Get(features, "risk_score", <<0, 1>>),
     status |-> Get(existing, "status", "MONITOR")]

\* the FEATURES item written for a player
FeaturesItem(pk, owner, player_id, now, features) ==
    Merge([pk |-> pk, sk |-> "FEATURES", owner |-> owner,
           playerId |-> player_id, updatedAt |-> now], features)

\* one iteration of the loop over player_events; fail.players is the set
\* of <<player_id, operation>> store calls that raise in this request;
\* calls is the log of the calls made on the table, raising or not
UpdateOnePlayer(acc, player_id, owner, now, fail) ==
    LET pk == Pk(owner, player_id)
        Puts(seen, table1, features_item, features) ==
            IF <<player_id, "put_profile">> \in fail.players
            THEN [seen EXCEPT !.calls = @ \o << <<"get_item", pk, "PROFILE">>,
                                                <<"put_item", pk, "PROFILE">> >>]
            ELSE IF <<player_id, "put_features">> \in fail.players
            THEN [seen EXCEPT !.table = table1,
                              !.calls = @ \o << <<"get_item", pk, "PROFILE">>,
                                                <<"put_item", pk, "PROFILE">>,
                                                <<"put_item", pk, "FEATURES">> >>]
            ELSE [seen EXCEPT !.table = PutItem(table1, <<pk, "FEATURES">>, features_item),
                              !.calls = @ \o << <<"get_item", pk, "PROFILE">>,
                                                <<"put_item", pk, "PROFILE">>,
                                                <<"put_item", pk, "FEATURES">> >>,
                              !.player_updates =
                                  Append(@, [playerId |-> player_id, features |-> features])]
        Extracted(pos, existing, n_events, ef) ==
            Puts([acc EXCEPT !.events =
                                 [i \in 1..Len(acc.events) |->
                                     IF \E k \in 1..Len(pos) : pos[k] = i
                                     THEN ef.events[CHOOSE k \in 1..Len(pos) : pos[k] = i]
                                     ELSE acc.events[i]],
                             !.interesting = @ \o ef.interesting],
                 PutItem(acc.table, <<pk, "PROFILE">>,
                         ProfileItem(pk, owner, player_id, now, existing,
                                     n_events, ef.features)),
                 FeaturesItem(pk, owner, player_id, now, ef.features),
                 ef.features)
        Raised(pos, ef) ==
            [acc EXCEPT !.events =
                            [i \in 1..Len(acc.events) |->
                                IF \E k \in 1..Len(pos) : pos[k] = i
                                THEN ef.events[CHOOSE k \in 1..Len(pos) : pos[k] = i]
                                ELSE acc.events[i]],
                        !.calls = Append(@, <<"get_item", pk, "PROFILE">>)]
        Done(pos, existing, n_events, ef) ==
            IF ef.raised THEN Raised(pos, ef)
            ELSE Extracted(pos, existing, n_events, ef)
        Got(pos, p_events, existing) ==
            Done(pos, existing, Len(p_events), ExtractFeatures(p_events, existing))
        Grouped(pos) ==
            Got(pos, [k \in 1..Len(pos) |-> acc.events[pos[k]]],
                GetItem(acc.table, <<pk, "PROFILE">>))
    IN  IF <<player_id, "get">> \in fail.players
        THEN [acc EXCEPT !.calls = Append(@, <<"get_item", pk, "PROFILE">>)]
        ELSE Grouped(PositionsOf(acc.events, player_id, 1))

\* UpdateLoop with the try around the whole loop: the first call that
\* raises ends the loop
RECURSIVE UpdateLoopAborts(_, _, _, _, _, _)
UpdateLoopAborts(acc, order, k, owner, now, fail) ==
    IF k > Len(order) THEN acc
    ELSE IF \E op \in {"get", "put_profile", "put_features"} :
                <<order[k], op>> \in fail.players
    THEN UpdateOnePlayer(acc, order[k], owner, now, fail)
    ELSE UpdateLoopAborts(UpdateOnePlayer(acc, order[k], owner, now, fail),
                          order, k + 1, owner, now, fail)

RECURSIVE UpdateLoop(_, _, _, _, _, _)
UpdateLoop(acc, order, k, owner, now, fail) ==
    IF k > Len(order) THEN acc
    ELSE UpdateLoop(UpdateOnePlayer(acc, order[k], owner, now, fail),
                    order, k + 1, owner, now, fail)

\* update_player_states(events, owner): the table after the call, the
\* returned player_updates and interesting_events, and the events as the
\* call leaves them
UpdatePlayerStates(table, events, owner, now, fail) ==
    UpdateLoop([table |-> table, player_updates |-> <<>>,
                interesting |-> <<>>, events |-> events, calls |-> <<>>],
               PlayerOrder(events, 1, <<>>), 1, owner, now, fail)

-----------------------------------------------------------------------------
(* store_events, store_detections, create_response *)

\* the loop of a batch writer with the try around the whole loop: it ends
\* at the first record that raises
RECURSIVE PutBatchAborts(_, _, _)
PutBatchAborts(items, failed, i) ==
    IF i > Len(items) \/ i \in failed THEN <<>>
    ELSE <<items[i]>> \o PutBatchAborts(items, failed, i + 1)

\* the loop of a batch writer: the items of the records whose try block
\* does not raise, in order; stored is their number
RECURSIVE PutBatch(_, _, _)
PutBatch(items, failed, i) ==
    IF i > Len(items) THEN <<>>
    ELSE (IF i \in failed THEN <<>> ELSE <<items[i]>>) \o PutBatch(items, failed, i + 1)

\* the items store_events puts, in order; a missing eventId is a fresh
\* uuid4, a missing timestamp the clock reading; failed is the set of
\* positions whose record raises
StoreEvents(events, owner, now, failed) ==
    PutBatch([i \in 1..Len(events) |->
        LET evt == events[i]
            event_id == Get(evt, "eventId", <<"uuid4", "event", i>>)
            player_id == Get(evt, "playerId", "unknown")
            timestamp == Get(evt, "timestamp", now)
        IN  [pk |-> Pk(owner, player_id), sk |-> <<timestamp, event_id>>,
             eventId |-> event_id, owner |-> owner, playerId |-> player_id,
             actionType |-> Get(evt, "actionType", "UNKNOWN"),
             timestamp |-> timestamp,
             sessionId |-> Get(evt, "sessionId", None),
             metadata |-> JsonDumps(Get(evt, "metadata", EmptyDict))]],
        failed, 1)

\* the items store_detections puts, in order; failed is the set of
\* positions whose record raises
StoreDetections(dets, owner, now, failed) ==
    PutBatch([i \in 1..Len(dets) |->
        LET detection == dets[i]
            detection_id == <<"uuid4", "detection", i>>
            player_id == detection.playerId
        IN  [pk |-> Pk(owner, player_id), sk |-> <<now, detection_id>>,
             detectionId |-> detection_id, owner |-> owner, playerId |-> player_id,
             detectorType |-> detection.detectorType,
             score |-> detection.score,
             threshold |-> detection.threshold,
             features |-> JsonDumps(detection.features),
             status |-> "OPEN", createdAt |-> now]],
        failed, 1)

\* create_response(status_code, body)
CreateResponse(status_code, body) ==
    [statusCode |-> status_code,
     headers |-> [ContentType |-> "application/json", AccessControlAllowOrigin |-> "*"],
     body |-> JsonDumps(body)]

-----------------------------------------------------------------------------
(* lambda_handler *)

\* the feedback loop: the events of the players named by a detection are
\* appended to the interesting list unless an equal event is in it
RECURSIVE Feedback(_, _, _, _)
Feedback(events, i, detection_player_ids, interesting) ==
    IF i > Len(events) THEN interesting
    ELSE LET evt == events[i]
         IN  Feedback(events, i + 1, detection_player_ids,
                 IF /\ Get(evt, "playerId", None) \in detection_player_ids
                    /\ ~ \E k \in 1..Len(interesting) : interesting[k] = evt
                 THEN Append(interesting, evt) ELSE interesting)

NoRun == [player_updates |-> <<>>, interesting |-> <<>>, detections |-> <<>>,
          eventsPut |-> <<>>, detectionsPut |-> <<>>, calls |-> <<>>]

\* no store call raises
NoFail == [players |-> {}, events |-> {}, detections |-> {}]

\* SuccessBody with the skipped events counted against the events stored
SuccessBodySkipsUnstored(events, interesting_events, events_stored, player_updates, detections_stored) ==
    [success |-> TRUE,
     eventsReceived |-> Len(events),
     eventsStored |-> events_stored,
     eventsSkipped |-> Len(events) - events_stored,
     playersUpdated |-> Len(player_updates),
     detectionsCreated |-> detections_stored]

\* the body of the response of a request that ran the pipeline
SuccessBody(events, interesting_events, events_stored, player_updates, detections_stored) ==
    [success |-> TRUE,
     eventsReceived |-> Len(events),
     eventsStored |-> events_stored,
     eventsSkipped |-> Len(events) - Len(interesting_events),
     playersUpdated |-> Len(player_updates),
     detectionsCreated |-> detections_stored]

\* lambda_handler(event, context) for a body {"events": events}: the
\* player table after the call, what the call computed and put, and the
\* response (requestId and processingTimeMs left out)
LambdaHandler(table, events, now, fail) ==
    IF events = <<>> THEN
        [players |-> table, run |-> NoRun,
         response |-> CreateResponse(200,
             [success |-> TRUE, eventsProcessed |-> 0, detectionsCreated |-> 0])]
    ELSE
        LET owner == Get(events[1], "owner", "unknown")
            Stored(ups, dets, interesting_events, eventsPut, detectionsPut) ==
                [players |-> ups.table,
                 run |-> [player_updates |-> ups.player_updates,
                          interesting |-> interesting_events,
                          detections |-> dets,
                          eventsPut |-> eventsPut,
                          detectionsPut |-> detectionsPut,
                          calls |-> ups.calls],
                 response |-> CreateResponse(200,
                     SuccessBody(events, interesting_events, Len(eventsPut),
                                 ups.player_updates, Len(detectionsPut)))]
            FedBack(ups, dets, interesting_events) ==
                Stored(ups, dets, interesting_events,
                       StoreEvents(interesting_events, owner, now, fail.events),
                       StoreDetections(dets, owner, now, fail.detections))
            Detected(ups, dets) ==
                FedBack(ups, dets,
                        Feedback(ups.events, 1,
                                 {dets[k].playerId : k \in 1..Len(dets)},
                                 ups.interesting))
            Updated(ups) == Detected(ups, RunDetection(ups.player_updates))
        IN  Updated(UpdatePlayerStates(table, events, owner, now, fail))

\* the events lambda_handler takes from the event it is invoked with,
\* <<>> when it returns before it has any
EventsIn(event) ==
    LET body == Get(event, "body", DictValue(EmptyDict))
        parsed == IF body.type = "str"
                  THEN (IF JsonLoads(body.value).raised THEN ListValue(<<>>)
                        ELSE JsonLoads(body.value).value)
                  ELSE body
    IN  IF parsed.type = "dict" THEN Get(parsed.value, "events", <<>>) ELSE <<>>

\* LambdaHandlerEvent without the except clause for JSONDecodeError: the
\* error is caught by except Exception
LambdaHandlerEventNoJsonClause(table, event, now, fail) ==
    LET body == Get(event, "body", DictValue(EmptyDict))
        Failed(status_code, error) ==
            [players |-> table, run |-> NoRun,
             response |-> CreateResponse(status_code,
                                         [success |-> FALSE, error |-> error])]
        Parsed(value) ==
            IF value.type # "dict"
            THEN Failed(500, <<"AttributeError", value.type, "get">>)
            ELSE LambdaHandler(table, Get(value.value, "events", <<>>), now, fail)
    IN  IF body.type = "str"
        THEN (IF JsonLoads(body.value).raised
              THEN Failed(500, <<"JSONDecodeError", body.value>>)
              ELSE Parsed(JsonLoads(body.value).value))
        ELSE Parsed(body)

\* LambdaHandlerEvent reading a PROFILE item before it parses the body
LambdaHandlerEventReadsFirst(table, event, now, fail) ==
    LET body == Get(event, "body", DictValue(EmptyDict))
        read == <<"get_item", <<"unknown", "unknown">>, "PROFILE">>
        Failed(status_code, error) ==
            [players |-> table, run |-> [NoRun EXCEPT !.calls = <<read>>],
             response |-> CreateResponse(status_code,
                                         [success |-> FALSE, error |-> error])]
        Ran(r) == [r EXCEPT !.run.calls = <<read>> \o @]
        Parsed(value) ==
            IF value.type # "dict"
            THEN Failed(500, <<"AttributeError", value.type, "get">>)
            ELSE Ran(LambdaHandler(table, Get(value.value, "events", <<>>), now, fail))
    IN  IF body.type = "str"
        THEN (IF JsonLoads(body.value).raised
              THEN Failed(400, "Invalid JSON in request body")
              ELSE Parsed(JsonLoads(body.value).value))
        ELSE Parsed(body)

\* lambda_handler(event, context): the body is parsed when it is a str,
\* a JSONDecodeError gives 400, any other exception 500
LambdaHandlerEvent(table, event, now, fail) ==
    LET body == Get(event, "body", DictValue(EmptyDict))
        Failed(status_code, error) ==
            [players |-> table, run |-> NoRun,
             response |-> CreateResponse(status_code,
                                         [success |-> FALSE, error |-> error])]
        Parsed(value) ==
            IF value.type # "dict"
            THEN Failed(500, <<"AttributeError", value.type, "get">>)
            ELSE LambdaHandler(table, Get(value.value, "events", <<>>), now, fail)
    IN  IF body.type = "str"
        THEN (IF JsonLoads(body.value).raised
              THEN Failed(400, "Invalid JSON in request body")
              ELSE Parsed(JsonLoads(body.value).value))
        ELSE Parsed(body)

-----------------------------------------------------------------------------
(* Inputs of the model *)

Owner == "o1"

Event(player_id, action_type, metadata) ==
    [owner |-> Owner, playerId |-> player_id, actionType |-> action_type,
     metadata |-> metadata]

\* the events a request draws from
EventUniverse ==
    { Event("p1", "WEAPON_FIRED", [shots |-> 10, hits |-> 9, headshots |-> 6]),
      Event("p1", "WEAPON_FIRED", EmptyDict),
      Event("p1", "WEAPON_FIRED", [shots |-> 5, hits |-> 10, headshots |-> 10]),
      Event("p1", "PLAYER_KILLED", EmptyDict),
      Event("p1", "PLAYER_TICK", EmptyDict),
      Event("p2", "WEAPON_FIRED", [shots |-> 10, hits |-> 2, headshots |-> 2]),
      Event("p2", "PLAYER_KILLED", EmptyDict) }

Batches == UNION { [1..n -> EventUniverse] : n \in 0..MaxBatch }

Clock == 1..MaxClock

\* a PROFILE and FEATURES pair as an earlier request with one routine
\* event left it, whose status a moderator has since set
SeededTable(player_id, status) ==
    LET t == LambdaHandler(EmptyDict, <<Event(player_id, "PLAYER_TICK", EmptyDict)>>,
                           1, NoFail).players
        key == <<Pk(Owner, player_id), "PROFILE">>
    IN  [t EXCEPT ![key] = SetKey(t[key], "status", status)]

\* the event of a request whose body is the dict {"events": events}
EventOf(events) == [body |-> DictValue([events |-> events])]

\* the events whose body is not a dict with events: no body, a body
\* without events, a str that is not JSON, a str that is a JSON list, and
\* str bodies that are the JSON text of a dict
OtherEvents ==
    { EmptyDict,
      [body |-> DictValue(EmptyDict)],
      [body |-> StrValue(<<"text", "{not json">>)],
      [body |-> StrValue(JsonDumps(ListValue(<<>>)))],
      [body |-> StrValue(JsonDumps(DictValue([events |-> <<>>])))],
      [body |-> StrValue(JsonDumps(DictValue(
                   [events |-> <<Event("p1", "PLAYER_KILLED", EmptyDict)>>])))] }

\* a PROFILE item that also holds feature attributes, as a writer that
\* keeps the state of a player in one item leaves it: lambda_handler passes
\* the PROFILE item to extract_features as existing_state
LegacyTable(player_id) ==
    LET key == <<Pk(Owner, player_id), "PROFILE">>
    IN  [k \in {key} |->
            [pk |-> Pk(Owner, player_id), sk |-> "PROFILE", owner |-> Owner,
             playerId |-> player_id, lastSeen |-> 1, firstSeen |-> 1,
             eventCount |-> 100, riskScore |-> <<0, 1>>, status |-> "MONITOR",
             totalShots |-> 10, totalHits |-> 10, totalHeadshots |-> 10,
             accuracySampleCount |-> 99]]

NoRequest == [event |-> EventOf(<<>>), events |-> <<>>, now |-> 1, fail |-> NoFail]
NoResponse == CreateResponse(200, EmptyDict)
NoDet == [called |-> FALSE, player_updates |-> <<>>, result |-> <<>>]
NoInflight == [inv |-> <<>>, log |-> <<>>]
NoExt == [called |-> FALSE, events |-> <<>>, existing_state |-> EmptyDict,
          result |-> [raised |-> FALSE, features |-> EmptyDict,
                      interesting |-> <<>>, events |-> <<>>]]

-----------------------------------------------------------------------------
(* The request pipeline: requests handled one after another *)

Init ==
    /\ players \in {EmptyDict, SeededTable("p1", "BANNED")}
    /\ prevPlayers = players
    /\ request = NoRequest
    /\ run = NoRun
    /\ response = NoResponse
    /\ nreq = 0
    /\ det = NoDet
    /\ eventsTable = <<>>
    /\ detectionsTable = <<>>
    /\ inflight = NoInflight
    /\ ext = NoExt

\* one invocation of lambda_handler
HandleEvent(event, now, fail) ==
    /\ nreq < MaxRequests
    /\ \E r \in {LambdaHandlerEvent(players, event, now, fail)} :
          /\ players' = r.players
          /\ prevPlayers' = players
          /\ request' = [event |-> event, events |-> EventsIn(event),
                         now |-> now, fail |-> fail]
          /\ run' = r.run
          /\ response' = r.response
          /\ nreq' = nreq + 1
          /\ eventsTable' = eventsTable \o r.run.eventsPut
          /\ detectionsTable' = detectionsTable \o r.run.detectionsPut
          /\ UNCHANGED <<det, ext, inflight>>

Handle(events, now, fail) == HandleEvent(EventOf(events), now, fail)

\* a request whose store calls all succeed
HandleRequest ==
    \E events \in Batches, now \in Clock : Handle(events, now, NoFail)

Next == HandleRequest

Spec == Init /\ [][Next]_vars

\* a request whose body is not a dict with events
HandleOtherBody ==
    \E event \in OtherEvents, now \in Clock : HandleEvent(event, now, NoFail)

\* the operations of update_player_states on the table
PlayerOps == {"get", "put_profile", "put_features"}

\* a first request in which one call on PLAYER_STATE_TABLE raises
HandlePlayerFailure ==
    /\ nreq = 0
    /\ \E events \in Batches, now \in Clock :
          \E player_id \in {events[k].playerId : k \in 1..Len(events)},
             op \in PlayerOps :
              Handle(events, now, [NoFail EXCEPT !.players = {<<player_id, op>>}])

\* a first request in which one record of store_events raises
HandleEventPutFailure ==
    /\ nreq = 0
    /\ \E events \in Batches, now \in Clock :
          \E i \in 1..Len(LambdaHandler(players, events, now, NoFail).run.interesting) :
              Handle(events, now, [NoFail EXCEPT !.events = {i}])

\* a first request in which one record of store_detections raises
HandleDetectionPutFailure ==
    /\ nreq = 0
    /\ \E events \in Batches, now \in Clock :
          \E i \in 1..Len(LambdaHandler(players, events, now, NoFail).run.detections) :
              Handle(events, now, [NoFail EXCEPT !.detections = {i}])
\* events whose metadata is not a dict: None, a list, a number, a boolean,
\* and a str that decodes to a list, to a dict, or not at all
OddEvents ==
    { Event("p1", "WEAPON_FIRED", NoneValue),
      Event("p1", "WEAPON_FIRED", StrValue(JsonDumps(ListValue(<<>>)))),
      Event("p1", "WEAPON_FIRED",
            StrValue(JsonDumps(DictValue([shots |-> 10, hits |-> 9, headshots |-> 6])))),
      Event("p1", "WEAPON_FIRED", StrValue(<<"text", "">>)),
      Event("p1", "PLAYER_ATTACK", IntValue(0)),
      Event("p1", "PLAYER_KILLED", NoneValue),
      Event("p1", "PLAYER_TICK", ListValue(<<>>)),
      Event("p2", "WEAPON_FIRED", BoolValue(FALSE)) }

\* the events that come with them in a batch
PlainEvents ==
    { Event("p1", "WEAPON_FIRED", [shots |-> 10, hits |-> 9, headshots |-> 6]),
      Event("p1", "PLAYER_KILLED", EmptyDict),
      Event("p2", "PLAYER_KILLED", EmptyDict) }

OddBatches ==
    { b \in UNION { [1..n -> OddEvents \cup PlainEvents] : n \in 1..MaxBatch } :
        \E i \in 1..Len(b) : b[i] \in OddEvents }

\* a first request with an event whose metadata is not a dict
HandleOddMetadata ==
    /\ nreq = 0
    /\ \E events \in OddBatches, now \in Clock : Handle(events, now, NoFail)
\* events of several tenants; an owner and a player id may hold a '#'
OwnedEvent(owner, player_id, action_type) ==
    [owner |-> owner, playerId |-> player_id, actionType |-> action_type,
     metadata |-> EmptyDict]

TenantEvents ==
    { OwnedEvent("o1", "p1", "WEAPON_FIRED"),
      OwnedEvent("o2", "p2", "PLAYER_KILLED"),
      OwnedEvent("o1#p1", "x", "PLAYER_KILLED"),
      OwnedEvent("o1", "p1#x", "PLAYER_KILLED") }

TenantBatches == UNION { [1..n -> TenantEvents] : n \in 1..MaxBatch }

\* a request whose events name several owners
HandleTenants ==
    \E events \in TenantBatches, now \in Clock : Handle(events, now, NoFail)
\* batches of three events of two players
InterleavedBatches ==
    [1..3 -> {Event("p1", "PLAYER_KILLED", EmptyDict),
              Event("p2", "PLAYER_KILLED", EmptyDict)}]

\* a first request of three events
HandleInterleaved ==
    /\ nreq = 0
    /\ \E events \in InterleavedBatches, now \in Clock : Handle(events, now, NoFail)
\* events of a routine, an unknown, an empty and a missing actionType,
\* and two events that are not routine
RoutineEvents ==
    { Event("p1", "PLAYER_INPUT", EmptyDict),
      Event("p1", "LOOT_BOX_OPENED", [shots |-> 10, hits |-> 10, headshots |-> 10]),
      Event("p1", "", EmptyDict),
      [owner |-> Owner, playerId |-> "p1", metadata |-> EmptyDict],
      Event("p1", "WEAPON_FIRED", [shots |-> 10, hits |-> 9, headshots |-> 6]),
      Event("p1", "PLAYER_KILLED", EmptyDict) }

RoutineBatches == UNION { [1..n -> RoutineEvents] : n \in 1..MaxBatch }

\* a first request with events of routine and unknown types
HandleRoutine ==
    /\ nreq = 0
    /\ \E events \in RoutineBatches, now \in Clock : Handle(events, now, NoFail)

NextFail ==
    \/ HandleRequest
    \/ HandleOtherBody
    \/ HandlePlayerFailure
    \/ HandleEventPutFailure
    \/ HandleDetectionPutFailure

\* the tables as the first request may find them: also a PROFILE item
\* that holds feature attributes
InitFail ==
    /\ players \in {EmptyDict, SeededTable("p1", "BANNED"), LegacyTable("p1")}
    /\ prevPlayers = players
    /\ request = NoRequest
    /\ run = NoRun
    /\ response = NoResponse
    /\ nreq = 0
    /\ det = NoDet
    /\ eventsTable = <<>>
    /\ detectionsTable = <<>>
    /\ inflight = NoInflight
    /\ ext = NoExt

\* the pipeline with requests that return early and store calls that raise
SpecFail == InitFail /\ [][NextFail]_vars

\* requests whose batches hold odd metadata, several tenants, interleaved
\* players or routine events, against the same tables
NextBatches ==
    \/ HandleOddMetadata
    \/ HandleTenants
    \/ HandleInterleaved
    \/ HandleRoutine

SpecBatches == InitFail /\ [][NextBatches]_vars

\* an event that has no playerId
Anonymous(action_type, metadata) ==
    [owner |-> Owner, actionType |-> action_type, metadata |-> metadata]

\* events without a playerId, routine and not, an event that names the
\* player 'unknown', and an event of p1
AnonymousEvents ==
    { Anonymous("WEAPON_FIRED", EmptyDict),
      Anonymous("WEAPON_FIRED", [shots |-> 10, hits |-> 9, headshots |-> 6]),
      Anonymous("PLAYER_TICK", EmptyDict),
      Anonymous("PLAYER_KILLED", EmptyDict),
      Event("unknown", "PLAYER_TICK", EmptyDict),
      Event("p1", "WEAPON_FIRED", EmptyDict) }

AnonymousBatches == UNION { [1..n -> AnonymousEvents] : n \in 1..MaxBatch }

\* the tables as the first request may find them: empty, or with a PROFILE
\* item that holds feature attributes for the player 'unknown' or for p1
InitAnonymous ==
    /\ players \in {EmptyDict, LegacyTable("unknown"), LegacyTable("p1")}
    /\ prevPlayers = players
    /\ request = NoRequest
    /\ run = NoRun
    /\ response = NoResponse
    /\ nreq = 0
    /\ det = NoDet
    /\ eventsTable = <<>>
    /\ detectionsTable = <<>>
    /\ inflight = NoInflight
    /\ ext = NoExt

\* a request with events that have no playerId
HandleAnonymous ==
    \E events \in AnonymousBatches, now \in Clock : Handle(events, now, NoFail)

NextAnonymous == HandleAnonymous

SpecAnonymous == InitAnonymous /\ [][NextAnonymous]_vars

-----------------------------------------------------------------------------
(* run_detection on its own: one call on a drawn player_updates *)

\* accuracySampleCount values around the floor
SampleCounts == {5, 99, 100, 150}
Accuracies == {<<1, 10>>, <<1, 5>>, <<1, 2>>, <<4, 5>>, <<9, 10>>}
\* accuracyStdDev values: 0.0, 0.01, 0.011, 0.1
StdDevs == {<<0, 0, 1>>, SurdOf(<<1, 100>>), SurdOf(<<11, 1000>>), SurdOf(<<1, 10>>)}
HeadshotRatios == {<<3, 10>>, <<1, 2>>, <<51, 100>>, <<7, 10>>}

\* a feature vector without the accuracySampleCount key
Uncounted(accuracy, std_dev, headshot_ratio) ==
    [accuracy |-> accuracy, accuracyMean |-> <<1, 2>>,
     accuracyStdDev |-> std_dev, headshotRatio |-> headshot_ratio,
     totalHeadshots |-> 7, totalHits |-> 10]

FeatureVector(sample_count, accuracy, std_dev, headshot_ratio) ==
    SetKey(Uncounted(accuracy, std_dev, headshot_ratio),
           "accuracySampleCount", sample_count)

FeatureVectors ==
    { FeatureVector(n, a, s, h) :
        n \in SampleCounts, a \in Accuracies, s \in StdDevs, h \in HeadshotRatios }
    \cup { Uncounted(a, s, h) :
        a \in Accuracies, s \in StdDevs, h \in HeadshotRatios }

\* a second player of the same call
OtherUpdates ==
    { <<>>,
      << [playerId |-> "p2",
          features |-> FeatureVector(150, <<9, 10>>, SurdOf(<<1, 10>>), <<7, 10>>)] >>,
      << [playerId |-> "p2",
          features |-> FeatureVector(5, <<1, 2>>, <<0, 0, 1>>, <<3, 10>>)] >> }

InitDetect ==
    /\ players = EmptyDict
    /\ prevPlayers = EmptyDict
    /\ request = NoRequest
    /\ run = NoRun
    /\ response = NoResponse
    /\ nreq = 0
    /\ eventsTable = <<>>
    /\ detectionsTable = <<>>
    /\ inflight = NoInflight
    /\ ext = NoExt
    /\ \E f \in FeatureVectors, others \in OtherUpdates :
          det = [called |-> FALSE,
                 player_updates |-> <<[playerId |-> "p1", features |-> f]>> \o others,
                 result |-> <<>>]

CallRunDetection ==
    /\ ~ det.called
    /\ det' = [det EXCEPT !.called = TRUE, !.result = RunDetection(det.player_updates)]
    /\ UNCHANGED <<players, prevPlayers, request, run, response, nreq,
                   eventsTable, detectionsTable, ext, inflight>>

NextDetect == CallRunDetection

SpecDetect == InitDetect /\ [][NextDetect]_vars

-----------------------------------------------------------------------------
(* extract_features on its own: one call on drawn events and prior state *)

\* the metadata of the WEAPON_FIRED events drawn: shots, hits, headshots
ShotData ==
    { [shots |-> 10, hits |-> 9, headshots |-> 6],   \* 0.90 and 0.67: both
      [shots |-> 10, hits |-> 7, headshots |-> 0],   \* accuracy exactly 0.7
      [shots |-> 10, hits |-> 2, headshots |-> 1],   \* headshot ratio exactly 0.5
      [shots |-> 10, hits |-> 6, headshots |-> 2],   \* 0.60 and 0.33: neither
      [shots |-> 5, hits |-> 4, headshots |-> 0],    \* exactly MIN_SHOTS_FOR_INTERESTING
      [shots |-> 4, hits |-> 4, headshots |-> 4],    \* below the minimum
      [shots |-> 0, hits |-> 0, headshots |-> 0] }

\* the events an extract_features call draws from, all of one player
ExtractUniverse ==
    { Event("p1", t, m) :
        t \in {"SESSION_START", "SESSION_END", "PLAYER_KILLED", "PLAYER_REPORTED",
               "PLAYER_VIOLATION"},
        m \in {EmptyDict, [shots |-> 10, hits |-> 9, headshots |-> 6]} }
    \cup { Event("p1", "WEAPON_FIRED", m) : m \in ShotData \cup {EmptyDict} }
    \cup { Event("p1", "PLAYER_ATTACK", [damage |-> 150]),
           Event("p1", "PLAYER_ATTACK", [damage |-> 101]),
           Event("p1", "PLAYER_ATTACK", [damage |-> 100]),
           Event("p1", "PLAYER_ATTACK", EmptyDict),
           Event("p1", "PLAYER_ATTACK",
                 [damage |-> 0, shots |-> 10, hits |-> 9, headshots |-> 6]),
           Event("p1", "PLAYER_TICK", EmptyDict) }

\* the prior states drawn: none, and stored totals
ExistingStates ==
    { EmptyDict,
      [totalShots |-> 20, totalHits |-> 10, totalHeadshots |-> 3, totalKills |-> 2] }

InitExtract ==
    /\ players = EmptyDict
    /\ prevPlayers = EmptyDict
    /\ request = NoRequest
    /\ run = NoRun
    /\ response = NoResponse
    /\ nreq = 0
    /\ det = NoDet
    /\ eventsTable = <<>>
    /\ detectionsTable = <<>>
    /\ inflight = NoInflight
    /\ \E n \in 0..MaxBatch : \E events \in [1..n -> ExtractUniverse] :
          \E existing_state \in ExistingStates :
              ext = [called |-> FALSE, events |-> events,
                     existing_state |-> existing_state, result |-> NoExt.result]

CallExtractFeatures ==
    /\ ~ ext.called
    /\ ext' = [ext EXCEPT !.called = TRUE,
                          !.result = ExtractFeatures(ext.events, ext.existing_state)]
    /\ UNCHANGED <<players, prevPlayers, request, run, response, nreq, det,
                   eventsTable, detectionsTable, inflight>>

NextExtract == CallExtractFeatures

SpecExtract == InitExtract /\ [][NextExtract]_vars

-----------------------------------------------------------------------------
(* extract_features chained: each result is the next existing_state *)

Shots(shots, hits, headshots) ==
    Event("p1", "WEAPON_FIRED", [shots |-> shots, hits |-> hits, headshots |-> headshots])

\* the batches of a chain: session accuracies 0.8, 0.6, 1.0 and 0, a batch
\* of two WEAPON_FIRED events, batches that fire no shot, hits without
\* shots, headshots without hits, more hits than shots, and a negative
\* number of shots
ChainBatches ==
    { <<Shots(10, 8, 0)>>,
      <<Shots(10, 6, 6)>>,
      <<Shots(5, 4, 0), Shots(5, 4, 4)>>,
      <<Shots(10, 10, 10)>>,
      <<Event("p1", "WEAPON_FIRED", EmptyDict)>>,
      <<Shots(0, 0, 0)>>,
      <<Shots(0, 10, 0)>>,
      <<Shots(10, 0, 5)>>,
      <<Shots(5, 10, 3)>>,
      <<Shots(-10, 0, 0)>>,
      <<Event("p1", "PLAYER_KILLED", EmptyDict)>>,
      <<Event("p1", "PLAYER_TICK", EmptyDict), Event("p1", "", EmptyDict)>> }

InitChain ==
    /\ players = EmptyDict
    /\ prevPlayers = EmptyDict
    /\ request = NoRequest
    /\ run = NoRun
    /\ response = NoResponse
    /\ nreq = 0
    /\ det = NoDet
    /\ eventsTable = <<>>
    /\ detectionsTable = <<>>
    /\ inflight = NoInflight
    /\ ext = [called |-> FALSE, events |-> <<>>, existing_state |-> EmptyDict,
              result |-> NoExt.result, history |-> <<>>]

\* extract_features on one more batch, with the features the call before
\* returned as existing_state ({} for the first)
ChainExtractFeatures ==
    /\ Len(ext.history) < MaxChain
    /\ \E events \in ChainBatches :
          ext' = [called |-> TRUE, events |-> events,
                  existing_state |-> ext.result.features,
                  result |-> ExtractFeatures(events, ext.result.features),
                  history |-> Append(ext.history, events)]
    /\ UNCHANGED <<players, prevPlayers, request, run, response, nreq, det,
                   eventsTable, detectionsTable, inflight>>

NextChain == ChainExtractFeatures

SpecChain == InitChain /\ [][NextChain]_vars

-----------------------------------------------------------------------------
(* Two invocations in flight for the same owner and player *)

\* table.put_item(Item=item) with a ConditionExpression on the PROFILE
\* item the invocation read: the put is dropped when the item has changed
PutReadConditional(table, key, item, read) ==
    IF key[2] = "PROFILE" /\ ~ (/\ DOMAIN GetItem(table, key) = DOMAIN read
                                /\ GetItem(table, key) = read)
    THEN table
    ELSE PutItem(table, key, item)

\* table.put_item(Item=item) as update_player_states calls it; read is the
\* item the invocation got before, which the call does not use
PutRead(table, key, item, read) == PutItem(table, key, item)

\* the batches of the two invocations, all events of player p1
RaceBatches ==
    { <<Event("p1", "WEAPON_FIRED", [shots |-> 10, hits |-> 9, headshots |-> 6])>>,
      <<Event("p1", "PLAYER_KILLED", EmptyDict)>>,
      <<Event("p1", "WEAPON_FIRED", EmptyDict), Event("p1", "PLAYER_KILLED", EmptyDict)>> }

Invocations == 1..2

RaceKey(sk) == <<Pk(Owner, "p1"), sk>>

InitRace ==
    /\ players \in {EmptyDict, SeededTable("p1", "BANNED"), LegacyTable("p1")}
    /\ prevPlayers = players
    /\ request = NoRequest
    /\ run = NoRun
    /\ response = NoResponse
    /\ nreq = 0
    /\ det = NoDet
    /\ eventsTable = <<>>
    /\ detectionsTable = <<>>
    /\ ext = NoExt
    /\ \E inv \in [Invocations ->
                     { [events |-> b, now |-> t, pc |-> "get", existing |-> EmptyDict] :
                         b \in RaceBatches, t \in Clock }] :
          inflight = [inv |-> inv, log |-> <<>>]

\* the step of an invocation: the inflight record with its position moved
\* and its call logged
RaceStep(i, pc, op) ==
    [inflight EXCEPT !.inv[i].pc = pc, !.log = Append(@, <<i, op>>)]

\* table.get_item for the PROFILE item, and extract_features on it
RaceGetItem(i) ==
    /\ inflight.inv[i].pc = "get"
    /\ inflight' = [RaceStep(i, "put_profile", "get") EXCEPT
                       !.inv[i].existing = GetItem(players, RaceKey("PROFILE"))]
    /\ UNCHANGED <<players, prevPlayers, request, run, response, nreq, det,
                   eventsTable, detectionsTable, ext>>

\* table.put_item for the PROFILE item
RacePutProfile(i) ==
    /\ inflight.inv[i].pc = "put_profile"
    /\ players' = PutRead(players, RaceKey("PROFILE"),
                          ProfileItem(Pk(Owner, "p1"), Owner, "p1", inflight.inv[i].now,
                                      inflight.inv[i].existing,
                                      Len(inflight.inv[i].events),
                                      ExtractFeatures(inflight.inv[i].events,
                                                      inflight.inv[i].existing).features),
                          inflight.inv[i].existing)
    /\ inflight' = RaceStep(i, "put_features", "put_profile")
    /\ UNCHANGED <<prevPlayers, request, run, response, nreq, det,
                   eventsTable, detectionsTable, ext>>

\* table.put_item for the FEATURES item
RacePutFeatures(i) ==
    /\ inflight.inv[i].pc = "put_features"
    /\ players' = PutRead(players, RaceKey("FEATURES"),
                          FeaturesItem(Pk(Owner, "p1"), Owner, "p1", inflight.inv[i].now,
                                       ExtractFeatures(inflight.inv[i].events,
                                                       inflight.inv[i].existing).features),
                          inflight.inv[i].existing)
    /\ inflight' = RaceStep(i, "done", "put_features")
    /\ UNCHANGED <<prevPlayers, request, run, response, nreq, det,
                   eventsTable, detectionsTable, ext>>

NextRace ==
    \E i \in Invocations :
        \/ RaceGetItem(i)
        \/ RacePutProfile(i)
        \/ RacePutFeatures(i)

\* two invocations whose calls on PLAYER_STATE_TABLE interleave
SpecRace == InitRace /\ [][NextRace]_vars

-----------------------------------------------------------------------------
(* Two invocations in flight for disjoint sets of players *)

\* the batches of the two invocations: the player ids of the first are not
\* player ids of the second; the last pair is of two tenants whose owner
\* and player id hold a '#'
DisjointBatches ==
    { <<a, b>> :
        a \in { <<Event("p1", "WEAPON_FIRED", [shots |-> 10, hits |-> 9, headshots |-> 6])>>,
                <<Event("p1", "PLAYER_KILLED", EmptyDict),
                  Event("p3", "PLAYER_KILLED", EmptyDict)>>,
                <<Event("p3", "WEAPON_FIRED", EmptyDict)>> },
        b \in { <<Event("p2", "PLAYER_KILLED", EmptyDict)>>,
                <<Event("p2", "WEAPON_FIRED", [shots |-> 10, hits |-> 2, headshots |-> 2]),
                  Event("p2", "PLAYER_TICK", EmptyDict)>> } }
    \cup { << <<OwnedEvent("o1#p1", "x", "PLAYER_KILLED")>>,
              <<OwnedEvent("o1", "p1#x", "PLAYER_KILLED")>> >> }

\* an invocation as it enters the loop of update_player_states
Entering(events, now) ==
    [events |-> events, now |-> now, owner |-> Get(events[1], "owner", "unknown"),
     order |-> PlayerOrder(events, 1, <<>>), k |-> 1, pc |-> "get",
     existing |-> EmptyDict]

InitDisjoint ==
    /\ players \in {EmptyDict, SeededTable("p1", "BANNED"), LegacyTable("p1")}
    /\ prevPlayers = players
    /\ request = NoRequest
    /\ run = NoRun
    /\ response = NoResponse
    /\ nreq = 0
    /\ det = NoDet
    /\ eventsTable = <<>>
    /\ detectionsTable = <<>>
    /\ ext = NoExt
    /\ \E pair \in DisjointBatches, now \in [Invocations -> Clock] :
          inflight = [inv |-> [i \in Invocations |-> Entering(pair[i], now[i])],
                      log |-> <<>>]

\* the player an invocation is at, its partition key and its events
PlayerAt(i) == inflight.inv[i].order[inflight.inv[i].k]
PkAt(i) == Pk(inflight.inv[i].owner, PlayerAt(i))
EventsAt(i) ==
    LET pos == PositionsOf(inflight.inv[i].events, PlayerAt(i), 1)
    IN  [k \in 1..Len(pos) |-> inflight.inv[i].events[pos[k]]]

\* the step of an invocation: its position moved and its call logged
DisjointStep(i, pc, op, sk) ==
    [inflight EXCEPT !.inv[i].pc = pc, !.log = Append(@, <<i, op, <<PkAt(i), sk>> >>)]

\* table.get_item for the PROFILE item of the player
DisjointGetItem(i) ==
    /\ inflight.inv[i].pc = "get"
    /\ inflight' = [DisjointStep(i, "put_profile", "get_item", "PROFILE") EXCEPT
                       !.inv[i].existing = GetItem(players, <<PkAt(i), "PROFILE">>)]
    /\ UNCHANGED <<players, prevPlayers, request, run, response, nreq, det,
                   eventsTable, detectionsTable, ext>>

\* table.put_item for the PROFILE item of the player
DisjointPutProfile(i) ==
    /\ inflight.inv[i].pc = "put_profile"
    /\ players' = PutItem(players, <<PkAt(i), "PROFILE">>,
                          ProfileItem(PkAt(i), inflight.inv[i].owner, PlayerAt(i),
                                      inflight.inv[i].now, inflight.inv[i].existing,
                                      Len(EventsAt(i)),
                                      ExtractFeatures(EventsAt(i),
                                                      inflight.inv[i].existing).features))
    /\ inflight' = DisjointStep(i, "put_features", "put_item", "PROFILE")
    /\ UNCHANGED <<prevPlayers, request, run, response, nreq, det,
                   eventsTable, detectionsTable, ext>>

\* table.put_item for the FEATURES item of the player; the loop goes on
\* to the next player of the batch
DisjointPutFeatures(i) ==
    /\ inflight.inv[i].pc = "put_features"
    /\ players' = PutItem(players, <<PkAt(i), "FEATURES">>,
                          FeaturesItem(PkAt(i), inflight.inv[i].owner, PlayerAt(i),
                                       inflight.inv[i].now,
                                       ExtractFeatures(EventsAt(i),
                                                       inflight.inv[i].existing).features))
    /\ inflight' = [DisjointStep(i, IF inflight.inv[i].k = Len(inflight.inv[i].order)
                                    THEN "done" ELSE "get",
                                 "put_item", "FEATURES") EXCEPT
                       !.inv[i].k = @ + 1]
    /\ UNCHANGED <<prevPlayers, request, run, response, nreq, det,
                   eventsTable, detectionsTable, ext>>

NextDisjoint ==
    \E i \in Invocations :
        \/ DisjointGetItem(i)
        \/ DisjointPutProfile(i)
        \/ DisjointPutFeatures(i)

\* two invocations over disjoint player sets whose calls on
\* PLAYER_STATE_TABLE interleave
SpecDisjoint == InitDisjoint /\ [][NextDisjoint]_vars

-----------------------------------------------------------------------------
(* One invocation of lambda_handler, stage by stage *)

\* NextStage with store_events called right after update_player_states
NextStageStoresFirst(pc) ==
    CASE pc = "update" -> "store_events"
      [] pc = "store_events" -> "detect"
      [] pc = "detect" -> "feedback"
      [] pc = "feedback" -> "store_detections"
      [] pc = "store_detections" -> "respond"
      [] pc = "respond" -> "done"

\* the statements of lambda_handler for a batch that is not empty, in the
\* order they run: update_player_states, run_detection, the feedback loop,
\* store_events, store_detections, create_response
NextStage(pc) ==
    CASE pc = "update" -> "detect"
      [] pc = "detect" -> "feedback"
      [] pc = "feedback" -> "store_events"
      [] pc = "store_events" -> "store_detections"
      [] pc = "store_detections" -> "respond"
      [] pc = "respond" -> "done"

\* the batches of a staged invocation: the batches of a request that hold
\* an event
StagedBatches == Batches \ {<<>>}

\* the invocation as it enters update_player_states: nothing read or
\* written yet, the players of the batch in the order of the loop
Staged(table, events, now) ==
    [events |-> events, now |-> now, pc |-> "update",
     owner |-> Get(events[1], "owner", "unknown"),
     order |-> PlayerOrder(events, 1, <<>>), k |-> 1,
     ups |-> [table |-> table, player_updates |-> <<>>, interesting |-> <<>>,
              events |-> events, calls |-> <<>>],
     interesting |-> <<>>, detections |-> <<>>,
     eventsPut |-> <<>>, detectionsPut |-> <<>>]

InitStages ==
    /\ players \in {EmptyDict, SeededTable("p1", "BANNED"), LegacyTable("p1")}
    /\ prevPlayers = players
    /\ request = NoRequest
    /\ run = NoRun
    /\ response = NoResponse
    /\ nreq = 0
    /\ det = NoDet
    /\ eventsTable = <<>>
    /\ detectionsTable = <<>>
    /\ ext = NoExt
    /\ \E events \in StagedBatches, now \in Clock :
          inflight = [inv |-> <<Staged(players, events, now)>>, log |-> <<>>]

\* the staged invocation
Inv == inflight.inv[1]

\* one iteration of the loop of update_player_states: the calls it makes
\* on PLAYER_STATE_TABLE are logged in order; after the last player the
\* function returns player_updates and interesting_events
StageUpdatePlayer ==
    /\ Inv.pc = "update"
    /\ \E ups \in {UpdateOnePlayer(Inv.ups, Inv.order[Inv.k], Inv.owner, Inv.now, NoFail)} :
          /\ players' = ups.table
          /\ inflight' = [inv |-> <<[Inv EXCEPT
                                       !.ups = ups,
                                       !.k = @ + 1,
                                       !.interesting = ups.interesting,
                                       !.pc = IF Inv.k = Len(Inv.order)
                                              THEN NextStage("update") ELSE @]>>,
                          log |-> ups.calls]
    /\ UNCHANGED <<prevPlayers, request, run, response, nreq, det,
                   eventsTable, detectionsTable, ext>>

\* detections = run_detection(player_updates, owner)
StageRunDetection ==
    /\ Inv.pc = "detect"
    /\ inflight' = [inv |-> <<[Inv EXCEPT
                                 !.detections = RunDetection(Inv.ups.player_updates),
                                 !.pc = NextStage("detect")]>>,
                    log |-> Append(inflight.log,
                                   <<"run_detection", Inv.ups.player_updates>>)]
    /\ UNCHANGED <<players, prevPlayers, request, run, response, nreq, det,
                   eventsTable, detectionsTable, ext>>

\* the feedback loop over the events of the request
StageFeedback ==
    /\ Inv.pc = "feedback"
    /\ inflight' = [inv |-> <<[Inv EXCEPT
                                 !.interesting =
                                     Feedback(Inv.ups.events, 1,
                                         {Inv.detections[k].playerId :
                                              k \in 1..Len(Inv.detections)},
                                         Inv.interesting),
                                 !.pc = NextStage("feedback")]>>,
                    log |-> Append(inflight.log, <<"feedback">>)]
    /\ UNCHANGED <<players, prevPlayers, request, run, response, nreq, det,
                   eventsTable, detectionsTable, ext>>

\* the puts of a batch writer, logged in order
PutLog(table, items) == [i \in 1..Len(items) |-> <<"put_item", table, items[i].pk>>]

\* events_stored = store_events(interesting_events, owner), called when
\* the list is not empty
StageStoreEvents ==
    /\ Inv.pc = "store_events"
    /\ \E items \in {StoreEvents(Inv.interesting, Inv.owner, Inv.now, {})} :
          /\ eventsTable' = eventsTable \o items
          /\ inflight' = [inv |-> <<[Inv EXCEPT !.eventsPut = items,
                                                !.pc = NextStage("store_events")]>>,
                          log |-> inflight.log \o PutLog("EVENTS_TABLE", items)]
    /\ UNCHANGED <<players, prevPlayers, request, run, response, nreq, det,
                   detectionsTable, ext>>

\* detections_stored = store_detections(detections, owner), called when
\* there is a detection
StageStoreDetections ==
    /\ Inv.pc = "store_detections"
    /\ \E items \in {StoreDetections(Inv.detections, Inv.owner, Inv.now, {})} :
          /\ detectionsTable' = detectionsTable \o items
          /\ inflight' = [inv |-> <<[Inv EXCEPT !.detectionsPut = items,
                                                !.pc = NextStage("store_detections")]>>,
                          log |-> inflight.log \o PutLog("DETECTIONS_TABLE", items)]
    /\ UNCHANGED <<players, prevPlayers, request, run, response, nreq, det,
                   eventsTable, ext>>

\* return create_response(200, ...)
StageRespond ==
    /\ Inv.pc = "respond"
    /\ request' = [event |-> EventOf(Inv.events), events |-> Inv.events,
                   now |-> Inv.now, fail |-> NoFail]
    /\ run' = [player_updates |-> Inv.ups.player_updates,
               interesting |-> Inv.interesting,
               detections |-> Inv.detections,
               eventsPut |-> Inv.eventsPut,
               detectionsPut |-> Inv.detectionsPut,
               calls |-> Inv.ups.calls]
    /\ response' = CreateResponse(200,
                       SuccessBody(Inv.events, Inv.interesting, Len(Inv.eventsPut),
                                   Inv.ups.player_updates, Len(Inv.detectionsPut)))
    /\ nreq' = nreq + 1
    /\ inflight' = [inflight EXCEPT !.inv[1].pc = NextStage("respond")]
    /\ UNCHANGED <<players, prevPlayers, det, eventsTable, detectionsTable, ext>>

NextStages ==
    \/ StageUpdatePlayer
    \/ StageRunDetection
    \/ StageFeedback
    \/ StageStoreEvents
    \/ StageStoreDetections
    \/ StageRespond

\* one invocation on a batch that is not empty, a stage at a time
SpecStages == InitStages /\ [][NextStages]_vars

-----------------------------------------------------------------------------
(* Reading the state *)

Players == {"p1", "p2"}

Profile(table, player_id) == GetItem(table, <<Pk(Owner, player_id), "PROFILE">>)
Features(table, player_id) == GetItem(table, <<Pk(Owner, player_id), "FEATURES">>)

TotalKeys == {"totalShots", "totalHits", "totalHeadshots", "totalKills"}

\* a stored total of a player, 0 when no FEATURES record is stored
Total(table, player_id, key) == Get(Features(table, player_id), key, 0)

\* the positions of a player's events in a batch
EventsOf(events, player_id) ==
    {i \in 1..Len(events) : events[i].playerId = player_id}

\* the number of shots a batch reports for a player
RECURSIVE ShotsIn(_, _)
ShotsIn(events, player_id) ==
    IF events = <<>> THEN 0
    ELSE (IF Head(events).playerId = player_id /\ Head(events).actionType = "WEAPON_FIRED"
          THEN Get(Head(events).metadata, "shots", 1) ELSE 0)
         + ShotsIn(Tail(events), player_id)

SampleCount(table, player_id) == Get(Features(table, player_id), "accuracySampleCount", 0)

-----------------------------------------------------------------------------
(* The claims *)

\* C1: handling batch A in one request and batch B in the next leaves every
\* player's stored totalShots, totalHits, totalHeadshots and totalKills equal
\* to those of handling A followed by B in a single request.
C1_SplitBatchSameTotals ==
    [][ (nreq >= 1 /\ nreq' = nreq + 1) =>
          \A p \in Players, key \in TotalKeys :
              Total(players', p, key)
                = Total(LambdaHandler(prevPlayers, request.events \o request'.events,
                                      request'.now, NoFail).players, p, key) ]_vars

\* C2: a player's stored totalShots, totalHits, totalHeadshots and totalKills
\* never decrease from one request to the next.
C2_TotalsNeverDecrease ==
    [][ \A p \in Players, key \in TotalKeys :
            Total(players', p, key) >= Total(players, p, key) ]_vars

\* C3: every request that carries WEAPON_FIRED shots for a player raises that
\* player's stored accuracySampleCount by exactly one (so that the sample
\* floor of run_detection is met after MIN_SAMPLES_FOR_DETECTION requests).
C3_SampleCountGrowsByOne ==
    [][ \A p \in Players :
            ShotsIn(request'.events, p) > 0
                => SampleCount(players', p) = SampleCount(players, p) + 1 ]_vars

\* C4: a request adds the number of a player's events in it to the player's
\* stored PROFILE eventCount (0 when no profile is stored), and leaves the
\* eventCount of every other player as it is: eventCount never decreases.
C4_EventCountAdds ==
    [][ \A p \in Players :
            Get(Profile(players', p), "eventCount", 0)
              = Get(Profile(players, p), "eventCount", 0)
                + Cardinality(EventsOf(request'.events, p)) ]_vars

\* a second request brought two events of a player whose profile was stored
C4_Witness ==
    \E p \in Players :
        /\ "eventCount" \in DOMAIN Profile(prevPlayers, p)
        /\ Cardinality(EventsOf(request.events, p)) = 2
        /\ Profile(players, p).eventCount = Profile(prevPlayers, p).eventCount + 2

\* C5: every stored PROFILE record has firstSeen <= lastSeen, whatever the
\* clock readings of the requests.
C5_FirstSeenBeforeLastSeen ==
    \A p \in Players :
        "firstSeen" \in DOMAIN Profile(players, p)
            => Profile(players, p).firstSeen <= Profile(players, p).lastSeen

\* C6: a request that updates a player keeps the firstSeen and the status of
\* a stored PROFILE record, and sets firstSeen to its clock reading and the
\* status to MONITOR when no record is stored.
C6_FirstSeenStatusKept ==
    [][ \A p \in Players :
            EventsOf(request'.events, p) # {} =>
                IF <<Pk(Owner, p), "PROFILE">> \in DOMAIN players
                THEN /\ Profile(players', p).firstSeen = Profile(players, p).firstSeen
                     /\ Profile(players', p).status = Profile(players, p).status
                ELSE /\ Profile(players', p).firstSeen = request'.now
                     /\ Profile(players', p).status = "MONITOR" ]_vars

\* a banned player first seen at 1 was updated by a request at 2
C6_Witness ==
    /\ nreq >= 1
    /\ EventsOf(request.events, "p1") # {}
    /\ request.now = 2
    /\ Get(Profile(prevPlayers, "p1"), "status", "") = "BANNED"
    /\ Get(Profile(prevPlayers, "p1"), "firstSeen", 0) = 1
    /\ Profile(players, "p1").status = "BANNED"
    /\ Profile(players, "p1").firstSeen = 1
    /\ Profile(players, "p1").lastSeen = 2

\* the risk score of an accuracy a and a headshot ratio h: the part of a
\* above 1/2 and the part of h above 3/10, in percent, at most 100
ExpectedRisk(a, h) ==
    LET acc_part == IF 2 * a[1] > a[2] THEN Frac(100 * (2 * a[1] - a[2]), 2 * a[2])
                    ELSE <<0, 1>>
        hs_part == IF 10 * h[1] > 3 * h[2] THEN Frac(100 * (10 * h[1] - 3 * h[2]), 10 * h[2])
                   ELSE <<0, 1>>
        sum == Frac(acc_part[1] * hs_part[2] + hs_part[1] * acc_part[2],
                    acc_part[2] * hs_part[2])
    IN  IF sum[1] > 100 * sum[2] THEN <<100, 1>>
        ELSE IF sum[1] < 0 THEN <<0, 1>> ELSE sum

\* C7: the risk score of every player a request updates is the sum of
\* (accuracy - 0.5) * 100 when accuracy > 0.5 and (headshotRatio - 0.3) * 100
\* when headshotRatio > 0.3, clamped to [0, 100], and is the riskScore stored
\* in the player's PROFILE.
C7_RiskScoreClamped ==
    \A k \in 1..Len(run.player_updates) :
        LET f == run.player_updates[k].features
            risk == f.risk_score
        IN  /\ 0 <= risk[1] /\ risk[1] <= 100 * risk[2]
            /\ risk = ExpectedRisk(f.accuracy, f.headshotRatio)
            /\ Profile(players, run.player_updates[k].playerId).riskScore = risk

\* a batch with more hits than shots: the sum is above 100 and is clamped
C7_Witness ==
    \E k \in 1..Len(run.player_updates) :
        LET f == run.player_updates[k].features
        IN  /\ f.accuracy = <<2, 1>>
            /\ f.risk_score = <<100, 1>>
            /\ Profile(players, run.player_updates[k].playerId).riskScore = <<100, 1>>

\* the detections of one type that a run_detection call returned for a player
DetectionsFor(player_id, detector_type) ==
    {k \in 1..Len(det.result) :
        /\ det.result[k].playerId = player_id
        /\ det.result[k].detectorType = detector_type}

DetectorTypes == {"ZSCORE_ACCURACY", "THRESHOLD_HEADSHOT"}

\* the sample floor is met by a feature vector
FloorMet(f) ==
    /\ "accuracySampleCount" \in DOMAIN f
    /\ f.accuracySampleCount >= MIN_SAMPLES_FOR_DETECTION

ZScoreFires(f) ==
    LET a == f.accuracy
        m == f.accuracyMean
        v == f.accuracyStdDev
        t == ZSCORE_THRESHOLD
        diff == a[1] * m[2] - m[1] * a[2]
        den == a[2] * m[2]
    IN  /\ v[1] = 1 /\ 10000 * v[2] > v[3]
        /\ diff * diff * v[3] * t[2] * t[2] > t[1] * t[1] * v[2] * den * den

\* the sign of accuracy - mean
ZSign(f) ==
    LET diff == f.accuracy[1] * f.accuracyMean[2] - f.accuracyMean[1] * f.accuracy[2]
    IN  IF diff > 0 THEN 1 ELSE IF diff < 0 THEN -1 ELSE 0

C10_HeadshotIff ==
    det.called =>
        \A k \in 1..Len(det.player_updates) :
            LET f == det.player_updates[k].features
                h == f.headshotRatio
                found == DetectionsFor(det.player_updates[k].playerId, "THRESHOLD_HEADSHOT")
            IN  FloorMet(f) =>
                    /\ (found # {}) <=> (2 * h[1] > h[2])
                    /\ \A i \in found :
                           /\ det.result[i].score = Frac(100 * h[1], h[2])
                           /\ det.result[i].threshold = <<50, 1>>

\* a headshot ratio of 0.51 with the floor met: one detection, score 51
C10_Witness ==
    /\ det.called
    /\ FloorMet(det.player_updates[1].features)
    /\ det.player_updates[1].features.headshotRatio = <<51, 100>>
    /\ \E i \in DetectionsFor("p1", "THRESHOLD_HEADSHOT") :
           det.result[i].score = <<51, 1>>

\* the detections a run_detection call returned for a player, in order
RecordsOf(player_id) ==
    SelectSeq(det.result, LAMBDA d : d.playerId = player_id)

\* C11: in one run_detection call each player gets at most one
\* ZSCORE_ACCURACY and at most one THRESHOLD_HEADSHOT detection, a player
\* for whom both rules hold gets exactly two records, and the records of a
\* player are those of a call on that player alone, whatever the other
\* players of the call.
C11_RulesIndependent ==
    det.called =>
        \A k \in 1..Len(det.player_updates) :
            LET p == det.player_updates[k].playerId
                f == det.player_updates[k].features
                h == f.headshotRatio
            IN  /\ \A t \in DetectorTypes : Cardinality(DetectionsFor(p, t)) <= 1
                /\ (FloorMet(f) /\ ZScoreFires(f) /\ 2 * h[1] > h[2])
                       => /\ Len(RecordsOf(p)) = 2
                          /\ \A t \in DetectorTypes : Cardinality(DetectionsFor(p, t)) = 1
                /\ RecordsOf(p) = RunDetection(<<det.player_updates[k]>>)

\* two players who both satisfy both rules: four records, two each
C11_Witness ==
    /\ det.called
    /\ Len(det.player_updates) = 2
    /\ Len(det.result) = 4
    /\ \A p \in {"p1", "p2"}, t \in DetectorTypes :
           Cardinality(DetectionsFor(p, t)) = 1

\* the action types the specification lists as always stored
AlwaysStored ==
    {"SESSION_START", "SESSION_END", "PLAYER_KILLED", "PLAYER_REPORTED",
     "PLAYER_VIOLATION"}

\* the sum of a metadata field over the WEAPON_FIRED events of a list
RECURSIVE FiredSum(_, _, _)
FiredSum(events, key, default) ==
    IF events = <<>> THEN 0
    ELSE (IF Head(events).actionType = "WEAPON_FIRED"
          THEN Get(Head(events).metadata, key, default) ELSE 0)
         + FiredSum(Tail(events), key, default)

\* C12: extract_features puts every event whose actionType is always
\* stored in the interesting list exactly once (in order, as it came), adds
\* exactly 1 to totalKills for each PLAYER_KILLED, and adds nothing to the
\* shot, hit and headshot totals for such events whatever their metadata.
C12_AlwaysStoreEvents ==
    ext.called =>
        LET stored(e) == e.actionType \in AlwaysStored
            killed(e) == e.actionType = "PLAYER_KILLED"
            f == ext.result.features
            old(key) == Get(ext.existing_state, key, 0)
        IN  /\ SelectSeq(ext.result.interesting, stored) = SelectSeq(ext.events, stored)
            /\ f.totalKills = old("totalKills") + Len(SelectSeq(ext.events, killed))
            /\ f.totalShots = old("totalShots") + FiredSum(ext.events, "shots", 1)
            /\ f.totalHits = old("totalHits") + FiredSum(ext.events, "hits", 0)
            /\ f.totalHeadshots = old("totalHeadshots") + FiredSum(ext.events, "headshots", 0)

\* two PLAYER_KILLED events that carry shot data: both in the interesting
\* list, two kills, and the shot totals as they were
C12_Witness ==
    /\ ext.called
    /\ Len(ext.events) = 2
    /\ \A i \in 1..2 :
           /\ ext.events[i].actionType = "PLAYER_KILLED"
           /\ ext.events[i].metadata = [shots |-> 10, hits |-> 9, headshots |-> 6]
    /\ ext.result.interesting = ext.events
    /\ ext.existing_state # EmptyDict
    /\ ext.result.features.totalKills = 4
    /\ ext.result.features.totalShots = 20

\* the event at position i of the call is tagged with a reason
Tagged(i) == "_interesting_reason" \in DOMAIN ext.result.events[i]

\* C13: extract_features tags a WEAPON_FIRED event exactly when its shots
\* are at least MIN_SHOTS_FOR_INTERESTING and hits/shots >= 0.7 or
\* headshots/max(hits,1) >= 0.5; the reason is high_accuracy whenever the
\* accuracy condition holds, a tagged event is appended exactly once, an
\* untagged one never.
C13_WeaponFiredTagged ==
    ext.called =>
        LET fired(e) == e.actionType = "WEAPON_FIRED"
            tagged(e) == fired(e) /\ "_interesting_reason" \in DOMAIN e
        IN  /\ \A i \in 1..Len(ext.events) :
                  fired(ext.events[i]) =>
                      LET m == ext.events[i].metadata
                          shots == Get(m, "shots", 1)
                          hits == Get(m, "hits", 0)
                          headshots == Get(m, "headshots", 0)
                          accurate == 10 * hits >= 7 * shots
                          headshot == 2 * headshots >= (IF hits > 1 THEN hits ELSE 1)
                      IN  /\ Tagged(i) <=>
                                (shots >= MIN_SHOTS_FOR_INTERESTING /\ (accurate \/ headshot))
                          /\ Tagged(i) =>
                                ext.result.events[i]._interesting_reason[1]
                                    = (IF accurate THEN "high_accuracy" ELSE "high_headshot")
            /\ SelectSeq(ext.result.interesting, fired)
                 = SelectSeq(ext.result.events, tagged)

\* an event with accuracy 0.9 and headshot ratio 0.67 is tagged
\* high_accuracy and appended once; one with 4 shots, all of them headshot
\* hits, is not tagged
C13_Witness ==
    /\ ext.called
    /\ Len(ext.events) = 2
    /\ ext.events[1] = Event("p1", "WEAPON_FIRED", [shots |-> 10, hits |-> 9, headshots |-> 6])
    /\ ext.events[2] = Event("p1", "WEAPON_FIRED", [shots |-> 4, hits |-> 4, headshots |-> 4])
    /\ ext.result.events[1]._interesting_reason[1] = "high_accuracy"
    /\ ~ Tagged(2)
    /\ Len(ext.result.interesting) = 1

\* the players for whom the last request returned a detection
DetectedPlayers == {run.detections[k].playerId : k \in 1..Len(run.detections)}

\* the entries of the final interesting list that are events of a player
InterestingOf(player_id) ==
    SelectSeq(run.interesting, LAMBDA e : e.playerId = player_id)

Body == response.body[2]

\* C15: in every 200 response for a non-empty batch, eventsSkipped is
\* eventsReceived minus the length of the final interesting list (after the
\* feedback loop), and when no event put fails eventsStored + eventsSkipped
\* = eventsReceived.
C15_SkippedFromFinalList ==
    (response.statusCode = 200 /\ request.events # <<>>) =>
        /\ Body.eventsReceived = Len(request.events)
        /\ Body.eventsSkipped = Body.eventsReceived - Len(run.interesting)
        /\ request.fail.events = {}
               => Body.eventsStored + Body.eventsSkipped = Body.eventsReceived

\* a detection brought a routine PLAYER_TICK event into the final list:
\* nothing skipped, both events stored
C15_Witness ==
    /\ response.statusCode = 200
    /\ Len(request.events) = 2
    /\ DetectedPlayers = {"p1"}
    /\ \E i \in 1..Len(run.interesting) : run.interesting[i].actionType = "PLAYER_TICK"
    /\ request.fail.events = {}
    /\ Body.eventsSkipped = 0
    /\ Body.eventsStored = 2

\* C16: a request whose events list is empty returns 200 with success true
\* and a body carrying eventsReceived = 0, eventsStored = 0,
\* playersUpdated = 0 and detectionsCreated = 0.
C16_EmptyBatchZeroCounters ==
    (nreq > 0 /\ request.events = <<>>) =>
        /\ response.statusCode = 200
        /\ Body.success = TRUE
        /\ \A key \in {"eventsReceived", "eventsStored", "playersUpdated",
                       "detectionsCreated"} :
               key \in DOMAIN Body /\ Body[key] = 0

\* the body of an event is a str that json.loads rejects
InvalidJson(event) ==
    /\ "body" \in DOMAIN event
    /\ event.body.type = "str"
    /\ event.body.value[1] # "json"

\* the body of an event is a dict, or a str holding the JSON text of a
\* dict, whose events list is empty or missing
EmptyBatch(event) ==
    \/ "body" \notin DOMAIN event
    \/ /\ "body" \in DOMAIN event
       /\ LET body == event.body
              value == IF body.type = "str" /\ body.value[1] = "json"
                       THEN body.value[2] ELSE body
          IN  /\ value.type = "dict"
              /\ ("events" \in DOMAIN value.value => value.value.events = <<>>)

\* C17: a request that returns early, because its events list is empty or
\* because its str body is not valid JSON, makes no call on the player
\* table and leaves the three tables as they were.
C17_EarlyReturnNoStoreAccess ==
    [][ (nreq' = nreq + 1 /\ (EmptyBatch(request'.event) \/ InvalidJson(request'.event)))
          => /\ run'.calls = <<>>
             /\ players' = players
             /\ eventsTable' = eventsTable
             /\ detectionsTable' = detectionsTable ]_vars

\* a request with an invalid JSON body after a request that stored a
\* profile and an event: 400, and the tables as the first request left them
C17_Witness ==
    /\ nreq = 2
    /\ InvalidJson(request.event)
    /\ response.statusCode = 400
    /\ run.calls = <<>>
    /\ players = prevPlayers
    /\ players # EmptyDict
    /\ Len(eventsTable) > 0

\* the body of an event is, or is the JSON text of, a value that is not a
\* dict: body.get raises AttributeError
NotADict(event) ==
    /\ "body" \in DOMAIN event
    /\ ~ InvalidJson(event)
    /\ (IF event.body.type = "str" THEN event.body.value[2] ELSE event.body).type # "dict"

\* C18: lambda_handler always returns a response with status 200, 400 or
\* 500: 400 with error 'Invalid JSON in request body' exactly when a str
\* body fails JSON parsing, 500 with the exception message when another
\* exception escapes the pipeline, and success is true exactly when the
\* status is 200.
C18_StatusAndSuccess ==
    nreq > 0 =>
        /\ response.statusCode \in {200, 400, 500}
        /\ "success" \in DOMAIN Body
        /\ Body.success = TRUE <=> response.statusCode = 200
        /\ response.statusCode = 400 <=> InvalidJson(request.event)
        /\ response.statusCode = 400 => Body.error = "Invalid JSON in request body"
        /\ response.statusCode = 500 <=> NotADict(request.event)
        /\ response.statusCode = 500
               => Body.error = <<"AttributeError", "list", "get">>

\* a str body that is the JSON text of a list: 500, success false, and the
\* message of the AttributeError
C18_Witness ==
    /\ nreq > 0
    /\ NotADict(request.event)
    /\ request.event.body.type = "str"
    /\ response.statusCode = 500
    /\ Body.success = FALSE
    /\ Body.error = <<"AttributeError", "list", "get">>

\* the players with an event in the request, and those whose store call
\* raises in it
BatchPlayers == {request.events[k].playerId : k \in 1..Len(request.events)}
FailedPlayers == {f[1] : f \in request.fail.players}
UpdatedPlayers == {run.player_updates[k].playerId : k \in 1..Len(run.player_updates)}

\* the calls update_player_states made on the table for a player
CallsFor(player_id) ==
    SelectSeq(run.calls, LAMBDA c : c[2] = Pk(Owner, player_id))

\* C19: when a get or put for one player raises in update_player_states,
\* that player is not counted in playersUpdated and gets no detection,
\* every other player of the batch is still read, updated and written, and
\* the request returns 200.
C19_FailedPlayerSkipped ==
    (nreq > 0 /\ request.fail.players # {}) =>
        /\ response.statusCode = 200
        /\ UpdatedPlayers = BatchPlayers \ FailedPlayers
        /\ Body.playersUpdated = Cardinality(BatchPlayers \ FailedPlayers)
        /\ DetectedPlayers \cap FailedPlayers = {}
        /\ \A q \in BatchPlayers \ FailedPlayers :
              /\ CallsFor(q) = << <<"get_item", Pk(Owner, q), "PROFILE">>,
                                  <<"put_item", Pk(Owner, q), "PROFILE">>,
                                  <<"put_item", Pk(Owner, q), "FEATURES">> >>
              /\ <<Pk(Owner, q), "PROFILE">> \in DOMAIN players
              /\ Profile(players, q).lastSeen = request.now
              /\ Profile(players, q).eventCount =
                     Get(Profile(prevPlayers, q), "eventCount", 0)
                         + Len(PositionsOf(request.events, q, 1))
              /\ <<Pk(Owner, q), "FEATURES">> \in DOMAIN players
              /\ Features(players, q).updatedAt = request.now

\* the first player of the batch, which the request would otherwise have
\* detected, fails; the second is still updated and written
C19_Witness ==
    /\ nreq > 0
    /\ FailedPlayers = {"p1"}
    /\ BatchPlayers = {"p1", "p2"}
    /\ request.events[1].playerId = "p1"
    /\ LambdaHandler(prevPlayers, request.events, request.now, NoFail).run.detections # <<>>
    /\ response.statusCode = 200
    /\ DetectedPlayers = {}
    /\ UpdatedPlayers = {"p2"}
    /\ <<Pk(Owner, "p2"), "FEATURES">> \in DOMAIN players

\* the positions of a list of records whose put does not raise
Written(records, failed) == {i \in 1..Len(records) : i \notin failed}

OddMetadata(evt) ==
    /\ "metadata" \in DOMAIN evt
    /\ IsTyped(evt.metadata)
    /\ IsTyped(ParseMetadata(evt.metadata))

\* the events of a player in the request whose metadata is usable
UsableOf(player_id) ==
    SelectSeq(request.events,
              LAMBDA e : e.playerId = player_id /\ ~ OddMetadata(e))

ShotKeys == {"totalShots", "totalHits", "totalHeadshots"}

\* C21: an event whose metadata is neither a mapping nor a str that decodes
\* to one does not abort the batch: the request returns 200, every player
\* of the batch is updated, the shot totals written for a player are those
\* of its other events (the event contributes zero), and every
\* always-store event of the batch is in the interesting list.
C21_OddMetadataTolerated ==
    (nreq > 0 /\ request.fail = NoFail
       /\ \E i \in 1..Len(request.events) : OddMetadata(request.events[i])) =>
        /\ response.statusCode = 200
        /\ UpdatedPlayers = BatchPlayers
        /\ \A q \in BatchPlayers :
              \A k \in ShotKeys :
                  Features(players, q)[k]
                      = ExtractFeatures(UsableOf(q), Profile(prevPlayers, q)).features[k]
        /\ \A i \in 1..Len(request.events) :
              request.events[i].actionType \in ALWAYS_STORE_EVENTS
                  => \E k \in 1..Len(run.interesting) :
                         run.interesting[k] = request.events[i]

\* the tenant lambda_handler derives from the request
Tenant == Get(request.events[1], "owner", "unknown")

\* the keys of PLAYER_STATE_TABLE the request put an item under
PutKeys ==
    {<<run.calls[k][2], run.calls[k][3]>> :
        k \in {j \in 1..Len(run.calls) : run.calls[j][1] = "put_item"}}

\* C22: every record a request writes (event, PROFILE, FEATURES, detection)
\* has the owner attribute and the pk of the owner of the request's first
\* event, also when later events name another owner, and no record is
\* written under a key that holds the record of another tenant.
C22_WritesUnderTenant ==
    (nreq > 0 /\ request.events # <<>> /\ request.fail.players = {}) =>
        /\ \A key \in PutKeys :
              /\ players[key].owner = Tenant
              /\ players[key].pk = Pk(Tenant, players[key].playerId)
              /\ key \in DOMAIN prevPlayers => prevPlayers[key].owner = Tenant
        /\ \A k \in 1..Len(run.eventsPut) :
              /\ run.eventsPut[k].owner = Tenant
              /\ run.eventsPut[k].pk = Pk(Tenant, run.eventsPut[k].playerId)
        /\ \A k \in 1..Len(run.detectionsPut) :
              /\ run.detectionsPut[k].owner = Tenant
              /\ run.detectionsPut[k].pk = Pk(Tenant, run.detectionsPut[k].playerId)

\* both invocations have made their three calls, and both read before
\* either wrote
RaceOver == \A i \in Invocations : inflight.inv[i].pc = "done"
BothReadFirst ==
    /\ Len(inflight.log) >= 2
    /\ inflight.log[1][2] = "get"
    /\ inflight.log[2][2] = "get"

\* the invocation whose call op came last
LastWriter(op) ==
    inflight.log[CHOOSE k \in 1..Len(inflight.log) :
                    /\ inflight.log[k][2] = op
                    /\ \A j \in (k + 1)..Len(inflight.log) : inflight.log[j][2] # op][1]

\* the PROFILE item both invocations read
RacePrior == GetItem(prevPlayers, RaceKey("PROFILE"))

\* C23: when two requests for the same owner and player both read the
\* player's record before either writes, each record ends as the later
\* writer wrote it: PROFILE and FEATURES are the items the invocation
\* whose put came last computed from the state both read, and the other
\* invocation's increments (eventCount, totals, Welford sample) are lost.
C23_LastWriterWins ==
    (RaceOver /\ BothReadFirst) =>
        /\ players[RaceKey("PROFILE")]
             = ProfileItem(Pk(Owner, "p1"), Owner, "p1",
                           inflight.inv[LastWriter("put_profile")].now, RacePrior,
                           Len(inflight.inv[LastWriter("put_profile")].events),
                           ExtractFeatures(inflight.inv[LastWriter("put_profile")].events,
                                           RacePrior).features)
        /\ players[RaceKey("FEATURES")]
             = FeaturesItem(Pk(Owner, "p1"), Owner, "p1",
                            inflight.inv[LastWriter("put_features")].now,
                            ExtractFeatures(inflight.inv[LastWriter("put_features")].events,
                                            RacePrior).features)
        /\ players[RaceKey("PROFILE")].eventCount
             = Get(RacePrior, "eventCount", 0)
                 + Len(inflight.inv[LastWriter("put_profile")].events)
        /\ players[RaceKey("FEATURES")].accuracySampleCount
             <= Get(RacePrior, "accuracySampleCount", 0) + 1

\* both invocations fired shots on a profile of 100 events and 99 samples;
\* the second wrote last: 101 events and 100 samples, the two events and
\* the sample of the first are lost
C23_Witness ==
    /\ RaceOver
    /\ BothReadFirst
    /\ prevPlayers = LegacyTable("p1")
    /\ Len(inflight.inv[1].events) = 2
    /\ Len(inflight.inv[2].events) = 1
    /\ inflight.inv[2].events[1].actionType = "WEAPON_FIRED"
    /\ LastWriter("put_profile") = 2
    /\ LastWriter("put_features") = 2
    /\ players[RaceKey("PROFILE")].eventCount = 101
    /\ players[RaceKey("FEATURES")].accuracySampleCount = 100

\* an event without the _interesting_reason extract_features may have
\* tagged it with
Untagged(evt) == [k \in DOMAIN evt \ {"_interesting_reason"} |-> evt[k]]

\* a is b with some of its entries left out: the entries of a, from the
\* i-th on, are found in this order in b from the j-th on
RECURSIVE InOrder(_, _, _, _)
InOrder(a, i, b, j) ==
    IF i > Len(a) THEN TRUE
    ELSE IF j > Len(b) THEN FALSE
    ELSE IF a[i] = b[j] THEN InOrder(a, i + 1, b, j + 1)
    ELSE InOrder(a, i, b, j + 1)

\* C24: the final interesting list of a request keeps the order of the
\* input: its events appear in the same relative order as in the request's
\* events list, also across players and for the events the feedback loop
\* adds.
C24_InterestingInInputOrder ==
    nreq > 0 =>
        InOrder([k \in 1..Len(run.interesting) |-> Untagged(run.interesting[k])], 1,
                request.events, 1)

\* the Welford state extract_features returned last
Stats == ext.result.features

\* a surd is zero, is not negative
SurdZero(s) == s[1] = 0
SurdNonNeg(s) == s[1] >= 0 /\ s[2] >= 0 /\ s[3] > 0

RECURSIVE SumField(_, _, _)
SumField(events, field, default) ==
    IF events = <<>> THEN 0
    ELSE (IF Get(Head(events), "actionType", "") = "WEAPON_FIRED"
          THEN Get(Head(events).metadata, field, default) ELSE 0)
         + SumField(Tail(events), field, default)

\* the session accuracies of the batches of the chain that fired shots
Sessions ==
    LET fired == SelectSeq(ext.history, LAMBDA b : SumField(b, "shots", 1) > 0)
    IN  [k \in 1..Len(fired) |->
            Frac(SumField(fired[k], "hits", 0), SumField(fired[k], "shots", 1))]

RECURSIVE RSum(_)
RSum(xs) == IF xs = <<>> THEN <<0, 1>> ELSE RAdd(Head(xs), RSum(Tail(xs)))

\* the mean of a sequence of floats and its sum of squared deviations
MeanOf(xs) == RDiv(RSum(xs), IntToFloat(Len(xs)))
SquaredDeviations(xs) ==
    RSum([k \in 1..Len(xs) |->
            RMul(RSub(xs[k], MeanOf(xs)), RSub(xs[k], MeanOf(xs)))])

\* C26: chaining extract_features over batches gives accuracySampleCount =
\* the number of batches that fired shots, accuracyMean = the mean of
\* their session accuracies, accuracyM2 = the sum of the squared deviations
\* from that mean, and accuracyStdDev = sqrt(accuracyM2 /
\* accuracySampleCount).
C26_WelfordMatchesOffline ==
    ext.called =>
        /\ Stats.accuracySampleCount = Len(Sessions)
        /\ Len(Sessions) > 0 =>
              /\ Stats.accuracyMean = MeanOf(Sessions)
              /\ Stats.accuracyM2 = SquaredDeviations(Sessions)
              /\ Stats.accuracyStdDev
                   = Sqrt(RDiv(Stats.accuracyM2, IntToFloat(Stats.accuracySampleCount)))

\* session accuracies 0.8 then 0.6: two samples, mean 0.7, M2 0.02,
\* standard deviation 0.1
C26_Witness ==
    /\ Sessions = << <<4, 5>>, <<3, 5>> >>
    /\ Len(ext.history) = 2
    /\ Stats.accuracySampleCount = 2
    /\ Stats.accuracyMean = <<7, 10>>
    /\ Stats.accuracyM2 = <<1, 50>>
    /\ Stats.accuracyStdDev = <<1, 1, 100>>

\* a float is the result of no division by zero
Defined(x) == x[2] # 0

\* C27: no division by zero occurs in extract_features or run_detection
\* for any metadata and any prior state earlier batches produced: every
\* float of the feature vector is defined, a total of zero shots gives
\* accuracy 0 and headshotRatio 0, no sample gives a standard deviation of
\* 0, and with a standard deviation of 0 the z-score rule is skipped.
C27_NoDivisionByZero ==
    ext.called =>
        /\ ~ ext.result.raised
        /\ Defined(Stats.accuracy)
        /\ Defined(Stats.headshotRatio)
        /\ Defined(Stats.accuracyMean)
        /\ Defined(Stats.accuracyM2)
        /\ Stats.accuracyStdDev[3] # 0
        /\ Defined(Stats.risk_score)
        /\ Stats.totalShots <= 0
               => Stats.accuracy = <<0, 1>> /\ Stats.headshotRatio = <<0, 1>>
        /\ Stats.accuracySampleCount = 0 => SurdZero(Stats.accuracyStdDev)
        /\ SurdZero(Stats.accuracyStdDev) => ZScoreRule("p1", Stats) = <<>>

\* ten shots fired and then taken back by a batch of -10 shots: eight
\* hits, a total of zero shots, accuracy 0
C27_Witness ==
    /\ Len(ext.history) = 2
    /\ Stats.totalShots = 0
    /\ Stats.totalHits = 8
    /\ Stats.accuracy = <<0, 1>>
    /\ Stats.headshotRatio = <<0, 1>>
    /\ Stats.accuracySampleCount = 1

\* the Welford state the last call was given, with the defaults of the
\* code for what it does not hold
Prior ==
    [accuracySampleCount |-> Get(ext.existing_state, "accuracySampleCount", 0),
     accuracyMean |-> Get(ext.existing_state, "accuracyMean", <<0, 1>>),
     accuracyM2 |-> Get(ext.existing_state, "accuracyM2", <<0, 1>>),
     accuracyStdDev |-> Get(ext.existing_state, "accuracyStdDev", <<0, 0, 1>>)]

\* the number of WEAPON_FIRED events of the last batch
FiredEvents == Len(SelectSeq(ext.events, LAMBDA e : e.actionType = "WEAPON_FIRED"))

\* C28: the Welford state is updated at most once per batch: a batch with
\* shots_fired > 0 raises accuracySampleCount by exactly 1 whatever its
\* number of WEAPON_FIRED events, and a batch with shots_fired = 0 leaves
\* accuracySampleCount, accuracyMean, accuracyM2 and accuracyStdDev as the
\* prior state had them.
C28_OneSamplePerBatch ==
    ext.called =>
        /\ SumField(ext.events, "shots", 1) > 0
               => Stats.accuracySampleCount = Prior.accuracySampleCount + 1
        /\ SumField(ext.events, "shots", 1) <= 0
               => \A k \in DOMAIN Prior : Stats[k] = Prior[k]

\* a batch of two WEAPON_FIRED events after two batches of different
\* accuracy: one more sample, three in all
C28_Witness ==
    /\ Len(ext.history) = 3
    /\ FiredEvents = 2
    /\ Prior.accuracySampleCount = 2
    /\ ~ SurdZero(Prior.accuracyStdDev)
    /\ Stats.accuracySampleCount = 3

\* an int of the state the last call was given, 0 when it does not hold it
PriorTotal(k) == Get(ext.existing_state, k, 0)

\* C29: every WEAPON_FIRED event adds its metadata shots (default 1), hits
\* (default 0) and headshots (default 0) to the totals, tagged interesting
\* or not: the totals count shots by the shots field, not by the number of
\* events.
C29_TotalsCountShotsField ==
    ext.called =>
        /\ Stats.totalShots = PriorTotal("totalShots") + SumField(ext.events, "shots", 1)
        /\ Stats.totalHits = PriorTotal("totalHits") + SumField(ext.events, "hits", 0)
        /\ Stats.totalHeadshots
             = PriorTotal("totalHeadshots") + SumField(ext.events, "headshots", 0)

\* a batch of two WEAPON_FIRED events of 5 shots, then one event without
\* metadata that is not tagged: 11 shots from 3 events
C29_Witness ==
    /\ Len(ext.history) = 2
    /\ Len(ext.history[1]) = 2
    /\ ext.events = <<Event("p1", "WEAPON_FIRED", EmptyDict)>>
    /\ ext.result.interesting = <<>>
    /\ PriorTotal("totalShots") = 10
    /\ Stats.totalShots = 11
    /\ Stats.totalHits = 8
    /\ Stats.totalHeadshots = 4

\* the actionType of an event is outside the always-store set,
\* WEAPON_FIRED and PLAYER_ATTACK
Routine(evt) ==
    Get(evt, "actionType", "")
        \notin {"SESSION_START", "SESSION_END", "PLAYER_KILLED", "PLAYER_REPORTED",
                "PLAYER_VIOLATION", "WEAPON_FIRED", "PLAYER_ATTACK"}

\* the events of a player in the request
EventsOfPlayer(player_id) ==
    SelectSeq(request.events, LAMBDA e : e.playerId = player_id)

\* the feature vector update_player_states returned for a player
UpdateOf(player_id) ==
    run.player_updates[CHOOSE k \in 1..Len(run.player_updates) :
                          run.player_updates[k].playerId = player_id].features

Kills(events) == Len(SelectSeq(events, LAMBDA e : Get(e, "actionType", "") = "PLAYER_KILLED"))

\* C30: an event whose actionType is routine, unknown, empty or missing
\* changes no counter and is not put in the interesting list by
\* extract_features: the totals of a player are those of its WEAPON_FIRED
\* and PLAYER_KILLED events, a player without detection has no such event
\* in the interesting list, and the event counts toward eventCount.
C30_RoutineEventsOnlyCounted ==
    (nreq > 0 /\ request.fail = NoFail
       /\ (\E i \in 1..Len(request.events) : Routine(request.events[i]))
       /\ (\A j \in 1..Len(request.events) : ~ OddMetadata(request.events[j]))) =>
        /\ UpdatedPlayers = BatchPlayers
        /\ \A q \in BatchPlayers :
              /\ UpdateOf(q).totalShots
                   = Get(Profile(prevPlayers, q), "totalShots", 0)
                       + SumField(EventsOfPlayer(q), "shots", 1)
              /\ UpdateOf(q).totalHits
                   = Get(Profile(prevPlayers, q), "totalHits", 0)
                       + SumField(EventsOfPlayer(q), "hits", 0)
              /\ UpdateOf(q).totalHeadshots
                   = Get(Profile(prevPlayers, q), "totalHeadshots", 0)
                       + SumField(EventsOfPlayer(q), "headshots", 0)
              /\ UpdateOf(q).totalKills
                   = Get(Profile(prevPlayers, q), "totalKills", 0)
                       + Kills(EventsOfPlayer(q))
              /\ SumField(EventsOfPlayer(q), "shots", 1) = 0
                   => UpdateOf(q).accuracySampleCount
                        = Get(Profile(prevPlayers, q), "accuracySampleCount", 0)
              /\ Profile(players, q).eventCount
                   = Get(Profile(prevPlayers, q), "eventCount", 0)
                       + Len(EventsOfPlayer(q))
              /\ q \notin DetectedPlayers
                   => \A k \in 1..Len(run.interesting) : ~ Routine(run.interesting[k])

\* an event of an unknown type that carries shots, and an event without
\* actionType: two events counted, no shot, nothing interesting
C30_Witness ==
    /\ nreq = 1
    /\ prevPlayers = EmptyDict
    /\ Len(request.events) = 2
    /\ Get(request.events[1], "actionType", "") = "LOOT_BOX_OPENED"
    /\ "actionType" \notin DOMAIN request.events[2]
    /\ UpdateOf("p1").totalShots = 0
    /\ Profile(players, "p1").eventCount = 2
    /\ run.interesting = <<>>
    /\ response.body[2].eventsSkipped = 2

\* C31: extract_features tags a PLAYER_ATTACK event (reason high_damage,
\* the event appended once) exactly when its metadata damage is greater
\* than 100: a damage of 100 or a missing damage is not tagged, and the
\* PLAYER_ATTACK events of a call add nothing to the shot, hit, headshot
\* and kill totals, whatever their metadata.
C31_AttackTaggedAbove100 ==
    ext.called =>
        LET attack(e) == e.actionType = "PLAYER_ATTACK"
            tagged(e) == attack(e) /\ "_interesting_reason" \in DOMAIN e
            other(e) == ~ attack(e)
            without == ExtractFeatures(SelectSeq(ext.events, other),
                                       ext.existing_state).features
        IN  /\ \A i \in 1..Len(ext.events) :
                  attack(ext.events[i]) =>
                      /\ Tagged(i) <=> ("damage" \in DOMAIN ext.events[i].metadata
                                        /\ ext.events[i].metadata.damage > 100)
                      /\ Tagged(i) =>
                             ext.result.events[i]._interesting_reason
                                 = <<"high_damage", ext.events[i].metadata.damage>>
            /\ SelectSeq(ext.result.interesting, attack)
                 = SelectSeq(ext.result.events, tagged)
            /\ \A key \in TotalKeys : ext.result.features[key] = without[key]

\* a damage of 101 is tagged and appended, a damage of 100 is not, and the
\* totals are those of the prior state
C31_Witness ==
    /\ ext.called
    /\ Len(ext.events) = 2
    /\ ext.events[1] = Event("p1", "PLAYER_ATTACK", [damage |-> 101])
    /\ ext.events[2] = Event("p1", "PLAYER_ATTACK", [damage |-> 100])
    /\ Tagged(1)
    /\ ~ Tagged(2)
    /\ Len(ext.result.interesting) = 1
    /\ ext.existing_state # EmptyDict
    /\ ext.result.features.totalShots = 20
    /\ ext.result.features.totalKills = 2

\* an attack that carries shot data next to a kill: one kill, no shots
C31_WitnessShotData ==
    /\ ext.called
    /\ Len(ext.events) = 2
    /\ ext.events[1].actionType = "PLAYER_ATTACK"
    /\ "shots" \in DOMAIN ext.events[1].metadata
    /\ ext.events[2].actionType = "PLAYER_KILLED"
    /\ ext.existing_state = EmptyDict
    /\ ext.result.features.totalShots = 0
    /\ ext.result.features.totalKills = 1

\* the positions of the log of the staged invocation that hold a call on
\* PLAYER_STATE_TABLE, a put of an event record, a put of a detection
\* record, and the entry of a stage
PlayerCalls ==
    {i \in 1..Len(inflight.log) : Len(inflight.log[i]) = 3
                                  /\ inflight.log[i][3] \in {"PROFILE", "FEATURES"}}
RecordPuts(table) ==
    {i \in 1..Len(inflight.log) : Len(inflight.log[i]) = 3
                                  /\ inflight.log[i][2] = table}
StageEntries(stage) ==
    {i \in 1..Len(inflight.log) : inflight.log[i][1] = stage}

\* C32: within one request every player's PROFILE and FEATURES writes come
\* before run_detection, run_detection works on the features just written,
\* every put of an event record and of a detection record comes after
\* run_detection and the feedback loop, and the event records are put
\* before the detection records; the stages together do what the request
\* does.
C32_StagesInOrder ==
    /\ \A d \in StageEntries("run_detection") :
          /\ \A c \in PlayerCalls : c < d
          /\ \A q \in {Inv.events[k].playerId : k \in 1..Len(Inv.events)} :
                /\ \E c \in PlayerCalls :
                      inflight.log[c] = <<"put_item", Pk(Inv.owner, q), "PROFILE">>
                /\ \E c \in PlayerCalls :
                      inflight.log[c] = <<"put_item", Pk(Inv.owner, q), "FEATURES">>
                /\ \E k \in 1..Len(inflight.log[d][2]) :
                      /\ inflight.log[d][2][k].playerId = q
                      /\ players[<<Pk(Inv.owner, q), "FEATURES">>]
                           = FeaturesItem(Pk(Inv.owner, q), Inv.owner, q, Inv.now,
                                          inflight.log[d][2][k].features)
          /\ \A f \in StageEntries("feedback") : d < f
    /\ (players # prevPlayers \/ PlayerCalls # {}) =>
           (Inv.pc = "update" => Inv.k > 1)
    /\ Inv.pc \in {"update", "detect"} => StageEntries("run_detection") = {}
    /\ \A p \in RecordPuts("EVENTS_TABLE") \cup RecordPuts("DETECTIONS_TABLE") :
          \E d \in StageEntries("run_detection"), f \in StageEntries("feedback") :
              d < f /\ f < p
    /\ \A e \in RecordPuts("EVENTS_TABLE"), d \in RecordPuts("DETECTIONS_TABLE") : e < d
    /\ Len(eventsTable) = Cardinality(RecordPuts("EVENTS_TABLE"))
    /\ Len(detectionsTable) = Cardinality(RecordPuts("DETECTIONS_TABLE"))
    /\ detectionsTable # <<>> =>
           eventsTable = StoreEvents(Inv.interesting, Inv.owner, Inv.now, {})
    /\ Inv.pc = "done" =>
           LET r == LambdaHandler(prevPlayers, Inv.events, Inv.now, NoFail)
           IN  /\ players = r.players
               /\ run = r.run
               /\ response = r.response
               /\ eventsTable = r.run.eventsPut
               /\ detectionsTable = r.run.detectionsPut

\* a request of two players with a detection for the first: four puts on
\* the player table, then run_detection, the feedback loop, two event
\* records and a detection record
C32_Witness ==
    /\ Inv.pc = "done"
    /\ Inv.order = <<"p1", "p2">>
    /\ Cardinality(PlayerCalls) = 6
    /\ StageEntries("run_detection") = {7}
    /\ StageEntries("feedback") = {8}
    /\ RecordPuts("EVENTS_TABLE") = {9, 10}
    /\ RecordPuts("DETECTIONS_TABLE") = {11}
    /\ Len(inflight.log) = 11
    /\ run.detections[1].playerId = "p1"

\* every WEAPON_FIRED event of a batch reports 0 <= hits <= shots
ValidShots(events) ==
    \A i \in 1..Len(events) :
        Get(events[i], "actionType", "") = "WEAPON_FIRED" =>
            /\ 0 <= Get(events[i].metadata, "hits", 0)
            /\ Get(events[i].metadata, "hits", 0) <= Get(events[i].metadata, "shots", 1)

\* C33: when every WEAPON_FIRED event of every batch of a chain reports
\* 0 <= hits <= shots, the accuracy extract_features returns is in [0, 1]
\* after every batch of the chain; with an event of more hits than shots
\* the call still returns a feature vector with an accuracy.
C33_AccuracyInUnitInterval ==
    ext.called =>
        /\ ~ ext.result.raised
        /\ "accuracy" \in DOMAIN Stats
        /\ Defined(Stats.accuracy)
        /\ (\A k \in 1..Len(ext.history) : ValidShots(ext.history[k])) =>
               /\ RLe(<<0, 1>>, Stats.accuracy)
               /\ RLe(Stats.accuracy, <<1, 1>>)

\* three batches of valid events, accuracies 0.8, 1.0 and 0.6 in turn:
\* 24 hits of 30 shots
C33_Witness ==
    /\ Len(ext.history) = 3
    /\ \A k \in 1..3 : ValidShots(ext.history[k])
    /\ ext.history[2] = <<Shots(10, 10, 10)>>
    /\ Stats.totalShots = 30
    /\ Stats.totalHits = 24
    /\ Stats.accuracy = <<4, 5>>

\* ten hits of five shots after a valid batch: the call returns, and the
\* accuracy is above 1
C33_WitnessMoreHits ==
    /\ Len(ext.history) = 2
    /\ ext.history[2] = <<Shots(5, 10, 3)>>
    /\ ValidShots(ext.history[1])
    /\ ~ ext.result.raised
    /\ RLt(<<1, 1>>, Stats.accuracy)

\* the PROFILE record of a player holds a higher eventCount than before
\* the last request
ProfileAdvanced(player_id) ==
    Get(Profile(players, player_id), "eventCount", 0)
        # Get(Profile(prevPlayers, player_id), "eventCount", 0)

\* the FEATURES record of a player is the one the last request computed
FeaturesWritten(player_id) ==
    /\ <<Pk(Owner, player_id), "FEATURES">> \in DOMAIN players
    /\ \E k \in 1..Len(run.player_updates) :
          /\ run.player_updates[k].playerId = player_id
          /\ Features(players, player_id)
               = FeaturesItem(Pk(Owner, player_id), Owner, player_id, request.now,
                              run.player_updates[k].features)

\* C34: after any request, also one in which a store call for a player
\* raised, the PROFILE and FEATURES records of each player of the batch
\* either both reflect the request or neither does: eventCount is advanced
\* exactly when the FEATURES record was written in the request, and a
\* player whose records were not both written has both as they were.
C34_ProfileAndFeaturesTogether ==
    nreq > 0 =>
        \A q \in BatchPlayers :
            /\ ProfileAdvanced(q) <=> FeaturesWritten(q)
            /\ ~ ProfileAdvanced(q) =>
                   /\ Profile(players, q) = Profile(prevPlayers, q)
                   /\ Features(players, q) = Features(prevPlayers, q)

\* C35: a player skipped because a store call for it raised contributes
\* nothing to the outputs of the request: none of its events is in the
\* interesting list handed to store_events, and no event record of that
\* player is written in the request.
C35_SkippedPlayerStoresNothing ==
    (nreq > 0 /\ request.fail.players # {}) =>
        \A q \in FailedPlayers :
            /\ q \notin UpdatedPlayers
            /\ InterestingOf(q) = <<>>
            /\ \A k \in 1..Len(run.eventsPut) : run.eventsPut[k].playerId # q

\* the player identity update_player_states and store_events give an event
IdentityOf(evt) == Get(evt, "playerId", "unknown")

\* the positions of the last request's events that have no playerId
NoPlayerId == {i \in 1..Len(request.events) : "playerId" \notin DOMAIN request.events[i]}

CountOf(events, evt) ==
    Cardinality({i \in 1..Len(events) : Untagged(events[i]) = evt})

\* C37: every 200 response carries 0 <= eventsStored <= eventsReceived and
\* eventsSkipped >= 0: each input event is at most once in the final
\* interesting list, so that list is no longer than the input and at most
\* one event record is written for an input event.
C37_StoredWithinReceived ==
    (nreq > 0 /\ response.statusCode = 200) =>
        /\ {"eventsReceived", "eventsStored", "eventsSkipped"} \subseteq DOMAIN Body
        /\ 0 <= Body.eventsStored
        /\ Body.eventsStored <= Body.eventsReceived
        /\ Body.eventsSkipped >= 0
        /\ \A i \in 1..Len(request.events) :
              CountOf(run.interesting, request.events[i])
                  <= CountOf(request.events, request.events[i])
        /\ Len(run.interesting) <= Len(request.events)
        /\ Len(run.eventsPut) <= Len(run.interesting)

\* both invocations have left update_player_states
DisjointOver == \A i \in Invocations : inflight.inv[i].pc = "done"

\* the players of an invocation: the owner it derived, with each player id
\* of its events
PlayersOf(i) ==
    { <<inflight.inv[i].owner, inflight.inv[i].order[k]>> :
          k \in 1..Len(inflight.inv[i].order) }

\* PLAYER_STATE_TABLE after the two invocations ran one after the other
Sequential(first, second) ==
    UpdatePlayerStates(
        UpdatePlayerStates(prevPlayers, inflight.inv[first].events,
                           inflight.inv[first].owner, inflight.inv[first].now,
                           NoFail).table,
        inflight.inv[second].events, inflight.inv[second].owner,
        inflight.inv[second].now, NoFail).table

\* C38: a request reads and writes PROFILE and FEATURES records only of
\* the players of its events, the records of every other player stay as
\* they were, and two requests over disjoint player sets that run
\* concurrently leave the player state that running them one after the
\* other leaves, in either order.
C38_DisjointPlayersIndependent ==
    /\ \A n \in 1..Len(inflight.log) :
          \E p \in PlayersOf(inflight.log[n][1]) :
              inflight.log[n][3][1] = Pk(p[1], p[2])
    /\ \A key \in DOMAIN prevPlayers :
          <<prevPlayers[key].owner, prevPlayers[key].playerId>>
                  \notin PlayersOf(1) \cup PlayersOf(2)
              => key \in DOMAIN players /\ players[key] = prevPlayers[key]
    /\ \A key \in DOMAIN players :
          <<players[key].owner, players[key].playerId>>
                  \notin PlayersOf(1) \cup PlayersOf(2)
              => key \in DOMAIN prevPlayers
    /\ DisjointOver =>
          /\ players = Sequential(1, 2)
          /\ players = Sequential(2, 1)

\* the put_item of a record of a player was called in the last request and
\* did not raise
PutDone(player_id, sk, op) ==
    /\ \E n \in 1..Len(run.calls) :
          run.calls[n] = <<"put_item", Pk(Owner, player_id), sk>>
    /\ <<player_id, op>> \notin request.fail.players

\* the players of the batch whose PROFILE and FEATURES were both written
BothWritten ==
    {q \in BatchPlayers : PutDone(q, "PROFILE", "put_profile")
                          /\ PutDone(q, "FEATURES", "put_features")}

\* C39: in a 200 response playersUpdated is the number of distinct players
\* of the batch whose PROFILE and FEATURES were both written, run_detection
\* is applied to exactly those players, and no detection is created for a
\* player whose state was not written in the request.
C39_PlayersUpdatedAreWritten ==
    (nreq > 0 /\ response.statusCode = 200) =>
        /\ "playersUpdated" \in DOMAIN Body
        /\ Body.playersUpdated = Cardinality(BothWritten)
        /\ UpdatedPlayers = BothWritten
        /\ Len(run.player_updates) = Cardinality(BothWritten)
        /\ run.detections = RunDetection(run.player_updates)
        /\ DetectedPlayers \subseteq BothWritten

====
